---- MODULE Spec2Model ----
(***************************************************************************)
(* A model of the docpilot retrieval pipeline: the chunker                 *)
(* (knowledge_copilot/utils/chunking.py), the document store and vector    *)
(* search (knowledge_copilot/services, rag_service.py) and the agent's     *)
(* answer policy (knowledge_copilot/agent.py, observability.py).           *)
(*                                                                         *)
(* Characters are modelled as the strings "A".."D" (letters), "sp" (a      *)
(* space), "nl" (a newline), "dot" and "com"; a text is a sequence of      *)
(* characters and offsets are 0-based as in Python.                        *)
(***************************************************************************)
EXTENDS Integers, Sequences, FiniteSets, TLC

VARIABLES
    \* ---- chunk_text(text, chunk_size, chunk_overlap) ----
    text,           \* the input text
    chunk_size,     \* parameter chunk_size
    chunk_overlap,  \* parameter chunk_overlap
    start,          \* the cursor of the while loop
    chunk_index,    \* the index the next emitted chunk gets
    chunks,         \* the list being built and returned
    processed,      \* the spans [start, end) the loop has cut, in order
    cpc,            \* "loop" while chunk_text runs, "done" once it returned
    \* ---- the token estimate attached to a chunk ----
    token_text,     \* the text of the chunk
    token_path,     \* the code that computed the estimate, or "none"
    approx_tokens,  \* the estimate
    \* ---- DatabaseService: the documents and chunks tables ----
    documents,      \* the committed rows of table documents
    chunk_rows,     \* the committed rows of table chunks
    doc_seq,        \* the next value of the documents.id sequence
    chunk_seq,      \* the next value of the chunks.id sequence
    last_call,      \* the last index_document / delete_document call and its outcome
    prev_call,      \* the call before it
    \* ---- RAGService.batch_index_documents ----
    batch_docs,     \* the list of documents of the call
    doc_batch_size, \* its parameter batch_size
    batch_i,        \* the offset i of the outer loop
    batch_j,        \* how many documents of the current batch were tried
    document_ids,   \* the list being built and returned
    attempts,       \* the index_document calls made so far: position, outcome, id
    bpc,            \* "idle", "running" or "done"
    \* ---- DatabaseService.search / RAGService.search ----
    table,          \* chunks joined with documents, each row with its distance to the query
    search_req,     \* the arguments of the search call
    fetched,        \* the rows the SQL query of the search call returned, in order
    search_out,     \* what the search call returned
    spc,            \* "idle" before the search call, "done" after it
    endpoint,       \* the HTTP endpoint the search request was posted to, or "none"
    http_status,    \* the status of the HTTP response, 0 before it
    queries_run,    \* embedding and store queries executed for the request
    \* ---- DocPilotAgent ----
    max_context_length, \* the agent's max_context_length
    apc,            \* where ask is: "idle", "searching", "generating", "returned"
    filters,        \* the SearchFilter of the request
    trace_id,       \* the trace id of the request
    search_results, \* what mcp_client.search_documents returned
    prompt,         \* what _build_rag_prompt assembled
    response,       \* the AgentResponse ask returns
    ask_raised,     \* whether an exception left ask
    search_calls,   \* search calls issued during the request
    gen_calls,      \* generate_response calls issued during the request
    session_stats,  \* MetricsCollector.session_stats
    metrics,        \* MetricsCollector.metrics
    \* ---- calls that run concurrently ----
    sessions,       \* the database sessions of the index_document calls in progress
    requests        \* the ask calls in progress on the one agent

chunkVars == <<text, chunk_size, chunk_overlap, start, chunk_index, chunks, processed, cpc,
               token_text, token_path, approx_tokens>>

storeVars == <<documents, chunk_rows, doc_seq, chunk_seq, last_call, prev_call,
               batch_docs, doc_batch_size, batch_i, batch_j, document_ids, attempts, bpc>>

searchVars == <<table, search_req, fetched, search_out, spc, endpoint, http_status, queries_run>>

agentVars == <<max_context_length, apc, filters, trace_id, search_results, prompt, response,
               ask_raised, search_calls, gen_calls, session_stats, metrics>>

concurrentVars == <<sessions, requests>>

vars == <<chunkVars, storeVars, searchVars, agentVars, concurrentVars>>

-----------------------------------------------------------------------------
(* Bounds of the model *)

MaxTextLen == 4
MaxTokenTextLen == 32
MaxChunkSize == 3
MaxDocId == 2
MaxDriveTextLen == 10
MaxDriveTokens == 2
MaxDriveSteps == 6
MaxBatchDocs == 3
MaxRows == 2
Scale == 4
MaxDistance == 5
MaxRequests == 1
MaxLimitSteps == 12

-----------------------------------------------------------------------------
(* Helpers *)

MaxOf(S) == CHOOSE x \in S : \A y \in S : y <= x

MinOf(S) == CHOOSE x \in S : \A y \in S : x <= y

Min2(a, b) == IF a <= b THEN a ELSE b

Max2(a, b) == IF a >= b THEN a ELSE b

-----------------------------------------------------------------------------
(* chunking.py *)

Whitespace == {"sp", "nl"}

\* the characters the exhaustive texts are built from
Alphabet == {"A", "sp", "nl", "dot"}

\* the default separators of chunk_text, in preference order; the last one,
\* the empty separator, ends the search
Separators ==
    << <<"nl", "nl">>, <<"nl">>, <<"dot", "sp">>, <<"excl", "sp">>,
       <<"q", "sp">>, <<"semi", "sp">>, <<"com", "sp">>, <<"sp">>, <<>> >>

\* end - len(separator) * 10: the look-back window of the separator search
LookBack == 10

\* Python's t[a:b] for 0 <= a, b <= len(t)
Slice(t, a, b) == SubSeq(t, a + 1, b)

\* Python's str.strip(): leading and trailing whitespace removed
Strip(s) ==
    LET keep == {i \in 1..Len(s) : s[i] \notin Whitespace}
    IN  IF keep = {} THEN <<>> ELSE SubSeq(s, MinOf(keep), MaxOf(keep))

\* Python's t.rfind(sep, lo, hi): the highest offset i >= lo at which sep
\* occurs and ends at or before hi, or -1
RFind(t, sep, lo, hi) ==
    LET hits == {i \in lo..(hi - Len(sep)) :
                    \A k \in 1..Len(sep) : t[i + k] = sep[k]}
    IN  IF hits = {} THEN -1 ELSE MaxOf(hits)

\* the for loop over the separators, from separator number k on: the first
\* separator found after start inside the window decides the break point
RECURSIVE BestEndFrom(_, _, _, _)
BestEndFrom(t, s, e, k) ==
    IF k > Len(Separators) \/ Separators[k] = <<>> THEN e
    ELSE LET sep == Separators[k]
             search_start == Max2(s, e - Len(sep) * LookBack)
             last_sep == RFind(t, sep, search_start, e)
         IN  IF last_sep > s THEN last_sep + Len(sep)
             ELSE BestEndFrom(t, s, e, k + 1)

\* mutant of ChunkEnd: a cut that falls inside a word moves to its end
ChunkEndAfterWord(t, size, s) ==
    LET e == Min2(s + size, Len(t))
        stops == {i \in e..Len(t) : i = Len(t) \/ t[i + 1] \in Whitespace}
    IN  IF e < Len(t) /\ e > 0 /\ t[e] \notin Whitespace THEN MinOf(stops) ELSE e

\* mutant of ChunkEnd: the window is one character too long
ChunkEndOffByOne(t, size, s) ==
    LET e == Min2(s + size + 1, Len(t))
    IN  IF e < Len(t) THEN BestEndFrom(t, s, e, 1) ELSE e

\* the end of the chunk that starts at s
ChunkEnd(t, size, s) ==
    LET e == Min2(s + size, Len(t))
    IN  IF e < Len(t) THEN BestEndFrom(t, s, e, 1) ELSE e

\* mutant of NextStart: the cursor is not pushed past its old position
NextStartNoFloor(s, e, overlap) == Max2(s, e - overlap)

\* mutant of NextStart: the cursor skips the character after the chunk
NextStartSkip(s, e, overlap) == Max2(s + 1, e + 1 - overlap)

\* the cursor after a chunk [s, e)
NextStart(s, e, overlap) == Max2(s + 1, e - overlap)

\* the dictionary chunk_text appends for the span [s, e)
ChunkData(t, s, e, idx) ==
    [text |-> Strip(Slice(t, s, e)), index |-> idx,
     metadata |-> [start_char |-> s, end_char |-> e,
                   chunk_size |-> Len(Strip(Slice(t, s, e)))]]

\* one iteration of the while loop
ChunkStep ==
    /\ cpc = "loop"
    /\ start < Len(text)
    /\ LET e == ChunkEnd(text, chunk_size, start)
           body == Strip(Slice(text, start, e))
       IN  /\ IF body # <<>>
              THEN /\ chunks' = Append(chunks, ChunkData(text, start, e, chunk_index))
                   /\ chunk_index' = chunk_index + 1
              ELSE UNCHANGED <<chunks, chunk_index>>
           /\ processed' = Append(processed, <<start, e>>)
           /\ start' = NextStart(start, e, chunk_overlap)
    /\ UNCHANGED <<text, chunk_size, chunk_overlap, cpc,
                   token_text, token_path, approx_tokens>>
    /\ UNCHANGED <<storeVars, searchVars, agentVars, concurrentVars>>

\* the loop condition fails: return chunks
ChunkReturn ==
    /\ cpc = "loop"
    /\ start >= Len(text)
    /\ cpc' = "done"
    /\ UNCHANGED <<text, chunk_size, chunk_overlap, start, chunk_index, chunks, processed,
                   token_text, token_path, approx_tokens>>
    /\ UNCHANGED <<storeVars, searchVars, agentVars, concurrentVars>>

\* every text over Alphabet of at most n characters
RECURSIVE TextsUpTo(_)
TextsUpTo(n) ==
    IF n = 0 THEN {<<>>}
    ELSE LET shorter == TextsUpTo(n - 1)
         IN  shorter \cup {Append(t, c) : t \in {u \in shorter : Len(u) = n - 1}, c \in Alphabet}

Word(c, n) == [i \in 1..n |-> c]

\* "AAAA BBBB CCCC DDDD"
ExampleText ==
    Word("A", 4) \o <<"sp">> \o Word("B", 4) \o <<"sp">> \o Word("C", 4) \o <<"sp">> \o Word("D", 4)

\* the calls chunk_text is checked on: every short text with every small
\* chunk_size and every chunk_overlap up to chunk_size, and the longer texts
\* (with a separator further back than the look-back window reaches)
ChunkCalls ==
    {<<t, size, ov>> : t \in TextsUpTo(MaxTextLen), size \in 1..MaxChunkSize, ov \in 0..MaxChunkSize}
    \cup {<<ExampleText, 9, 4>>, <<ExampleText, 9, 0>>,
          <<Word("A", 2) \o <<"sp">> \o Word("B", 14), 12, 3>>,
          <<Word("A", 2) \o <<"dot", "sp">> \o Word("B", 22) \o <<"sp">> \o Word("C", 3), 24, 2>>,
          <<Word("A", 2) \o <<"dot", "sp">> \o Word("B", 22) \o <<"sp">> \o Word("C", 3), 12, 0>>}

\* chunk_text is not running
ChunkIdle ==
    /\ text = <<>>
    /\ chunk_size = 0
    /\ chunk_overlap = 0
    /\ start = 0
    /\ chunk_index = 0
    /\ chunks = <<>>
    /\ processed = <<>>
    /\ cpc = "idle"
    /\ token_text = <<>>
    /\ token_path = "none"
    /\ approx_tokens = 0

ChunkNext == ChunkStep \/ ChunkReturn

\* the whole of chunk_text(t, size, overlap) from cursor s on: the chunks
\* appended to acc, the next of them getting index idx
RECURSIVE ChunkTextFrom(_, _, _, _, _, _)
ChunkTextFrom(t, size, overlap, s, idx, acc) ==
    IF s >= Len(t) THEN acc
    ELSE LET e == ChunkEnd(t, size, s)
             keep == Strip(Slice(t, s, e)) # <<>>
         IN  ChunkTextFrom(t, size, overlap, NextStart(s, e, overlap),
                           IF keep THEN idx + 1 ELSE idx,
                           IF keep THEN Append(acc, ChunkData(t, s, e, idx)) ELSE acc)

\* the defaults of chunk_text's parameters
DefaultChunkSize == 1000

DefaultChunkOverlap == 200

\* chunk_text(content), as index_document calls it
ChunkText(t) == ChunkTextFrom(t, DefaultChunkSize, DefaultChunkOverlap, 0, 0, <<>>)

-----------------------------------------------------------------------------
(* The token estimate: utils/chunking.py, connectors/gdrive_sync.py,        *)
(* connectors/github_sync.py                                                *)

\* math.ceil(a / b) for a >= 0 and b > 0
Ceil(a, b) == (a + b - 1) \div b

\* approx_token_count of utils/chunking.py: max(1, math.ceil(len(text) / 4))
ApproxTokenCount(t) == Max2(1, Ceil(Len(t), 4))

\* approx_token_count of gdrive_sync.py, which its chunk_text attaches to
\* each chunk as approx_tokens
DriveApproxTokenCount(t) == Max2(1, Ceil(Len(t), 4))

\* to_chunks of github_sync.py on a chunk of the chunking utility:
\* ch.get("approx_tokens", max(1, len(ch["text"]) // 4))
GithubApproxTokens(ch) ==
    IF "approx_tokens" \in DOMAIN ch THEN ch.approx_tokens
    ELSE Max2(1, Len(ch.text) \div 4)

\* the estimate is computed by one of the three paths
EstimateTokens(path) ==
    /\ token_path = "none"
    /\ token_text # <<>>
    /\ token_path' = path
    /\ approx_tokens' =
          CASE path = "chunking" -> ApproxTokenCount(token_text)
            [] path = "gdrive" -> DriveApproxTokenCount(token_text)
            [] path = "github" ->
                  GithubApproxTokens(ChunkData(token_text, 0, Len(token_text), 0))
    /\ UNCHANGED <<token_text, text, chunk_size, chunk_overlap, start, chunk_index, chunks,
                   processed, cpc>>
    /\ UNCHANGED <<storeVars, searchVars, agentVars, concurrentVars>>

TokenNext == \E path \in {"chunking", "gdrive", "github"} : EstimateTokens(path)

-----------------------------------------------------------------------------
(* connectors/gdrive_sync.py: chunk_text. The call's max_tokens and          *)
(* overlap_tokens are held in chunk_size and chunk_overlap, its list out in  *)
(* chunks, its cursor in start.                                              *)

\* "if not text: return []"
DriveChunkEmpty ==
    /\ cpc = "drive"
    /\ text = <<>>
    /\ cpc' = "done"
    /\ UNCHANGED <<text, chunk_size, chunk_overlap, start, chunk_index, chunks, processed,
                   token_text, token_path, approx_tokens>>
    /\ UNCHANGED <<storeVars, searchVars, agentVars, concurrentVars>>

\* one iteration of "while start < n": the chunk is appended, then the loop
\* breaks at the end of the text or moves the cursor to end - overlap_chars
DriveChunkStep ==
    /\ cpc = "drive"
    /\ text # <<>>
    /\ start < Len(text)
    /\ Len(processed) < MaxDriveSteps
    /\ LET max_chars == chunk_size * 4
           overlap_chars == chunk_overlap * 4
           n == Len(text)
           end == Min2(n, start + max_chars)
           chunk == Slice(text, start, end)
       IN  /\ chunks' = Append(chunks, [text |-> chunk,
                                         approx_tokens |-> DriveApproxTokenCount(chunk)])
           /\ processed' = Append(processed, <<start, end>>)
           /\ IF end = n
              THEN cpc' = "done" /\ UNCHANGED start
              ELSE start' = Max2(0, end - overlap_chars) /\ UNCHANGED cpc
    /\ UNCHANGED <<text, chunk_size, chunk_overlap, chunk_index,
                   token_text, token_path, approx_tokens>>
    /\ UNCHANGED <<storeVars, searchVars, agentVars, concurrentVars>>

DriveNext == DriveChunkEmpty \/ DriveChunkStep

-----------------------------------------------------------------------------
(* services/__init__.py: DatabaseService.index_document, delete_document *)

\* None where a string is expected
None == "None"

\* an Optional[float]: None is the empty tuple, a number x is <<x>>
NoNumber == <<>>

Given(x) == <<x>>

\* the text of an absent or empty string
NoText == <<>>

\* batch_size of index_document: the chunks are embedded ten at a time
BatchSize == 10

\* the number of iterations of "for i in range(0, len(chunks), batch_size)"
NumBatches(n) == (n + BatchSize - 1) \div BatchSize

\* the contents index_document is called with: one of one chunk, one
\* without any chunk, two whose chunks need a second embedding batch
StoreContents == {<<"A">>, <<"sp">>, Word("A", BatchSize + 1), Word("B", BatchSize + 1)}

\* the batch on which the embeddings service is made to fail, 0 for none
FailingBatches == 0..NumBatches(BatchSize + 1)

\* the metadata argument of index_document: a dictionary, None being the
\* empty one ("metadata or {}")
NoMetadata == <<>>

\* where a document comes from: its source, its uri there and the metadata
\* the connector passes with it
Origins ==
    {[source |-> "github", uri |-> "u1", metadata |-> NoMetadata],
     [source |-> "gdrive", uri |-> "u2", metadata |-> [chunk_index |-> 7, start_char |-> 7]]}

\* _calculate_content_hash: SHA-256 of the content. The digest is modelled
\* as a tagged copy of the content: equal contents have equal digests and
\* different contents have different ones (collisions are not modelled).
ContentHash(content) == <<"sha256", content>>

\* the embedding get_embeddings returns for a chunk text
Embedding(t) == <<"vec", t>>

NoCall == [op |-> "none"]

\* db.query(Document).filter(Document.content_hash == h).first()
ExistingDoc(h) == {d \in documents : d.content_hash = h}

\* mutant of LookupByHash: the lookup compares the uri as well
LookupByHashAndUri(content, uri) ==
    {d \in ExistingDoc(ContentHash(content)) : d.uri = uri}

\* the existence check of index_document
LookupByHash(content, uri) == ExistingDoc(ContentHash(content))

\* {**a, **b}: the keys of b override those of a
Merge(a, b) == [k \in DOMAIN a \cup DOMAIN b |-> IF k \in DOMAIN b THEN b[k] ELSE a[k]]

\* mutant of ChunkMetadata: the caller's keys override the chunk's index
ChunkMetadataCallerWins(metadata, chunk_data) ==
    Merge(Merge([chunk_index |-> chunk_data.index], chunk_data.metadata), metadata)

\* the chunk_metadata of a chunk: the caller's metadata, then the metadata
\* chunk_text gave the chunk, then the chunk's index under the key chunk_index
ChunkMetadata(metadata, chunk_data) ==
    Merge(Merge(metadata, chunk_data.metadata), [chunk_index |-> chunk_data.index])

\* the Chunk row of the i-th chunk of cs for document id, ids from chunk_seq on
ChunkRow(id, cs, metadata, i) ==
    [id |-> chunk_seq + i - 1, doc_id |-> id, text |-> cs[i].text,
     embedding |-> Embedding(cs[i].text), chunk_metadata |-> ChunkMetadata(metadata, cs[i])]

\* the Chunk rows index_document adds for document id
NewChunkRows(id, content, metadata) ==
    LET cs == ChunkText(content)
    IN  {ChunkRow(id, cs, metadata, i) : i \in 1..Len(cs)}

\* the Chunk rows in the session once the first k batches were embedded
SessionRows(id, content, metadata, k) ==
    LET cs == ChunkText(content)
    IN  {ChunkRow(id, cs, metadata, i) : i \in 1..Min2(Len(cs), k * BatchSize)}

\* mutant of Rollback: the pending rows are committed
RollbackCommits(pending) == pending

\* db.rollback() in the except branches: what stays of the rows pending
\* in the session
Rollback(pending) == [documents |-> {}, chunk_rows |-> {}]

\* mutant of ExistingId: the call answers with a fresh id
ExistingIdFresh(existing) == doc_seq

\* "return existing_doc.id"
ExistingId(existing) == (CHOOSE d \in existing : TRUE).id

\* the transaction of index_document(content, source, uri, title, mime,
\* metadata); failing_batch is the batch on which get_embeddings raises,
\* 0 when it answers every batch; embed_calls counts the get_embeddings calls
IndexDocumentTx(content, source, uri, title, mime, metadata, failing_batch) ==
    LET existing == LookupByHash(content, uri)
        id == doc_seq
        document == [id |-> id, source |-> source, uri |-> uri, title |-> title,
                     mime |-> mime, content_hash |-> ContentHash(content)]
        rows == NewChunkRows(id, content, metadata)
    IN  /\ IF existing # {}
           THEN \* the document is already indexed: return existing_doc.id
                /\ failing_batch = 0
                /\ last_call' = [op |-> "index", content |-> content, outcome |-> "returned",
                                 ret |-> ExistingId(existing), created |-> FALSE,
                                 failing_batch |-> 0, embed_calls |-> 0]
                /\ UNCHANGED <<documents, chunk_rows, doc_seq, chunk_seq>>
           ELSE /\ doc_seq <= MaxDocId
                /\ doc_seq' = doc_seq + 1      \* db.flush() draws the id
                /\ IF failing_batch = 0
                   THEN IF ExistingDoc(ContentHash(content)) # {}
                        THEN \* the unique index on content_hash: IntegrityError, rollback
                             /\ last_call' = [op |-> "index", content |-> content,
                                              outcome |-> "raised", ret |-> None, created |-> FALSE,
                                              failing_batch |-> 0,
                                              embed_calls |-> NumBatches(Len(ChunkText(content)))]
                             /\ UNCHANGED <<documents, chunk_rows, chunk_seq>>
                        ELSE \* db.commit()
                             /\ documents' = documents \cup {document}
                             /\ chunk_rows' = chunk_rows \cup rows
                             /\ chunk_seq' = chunk_seq + Cardinality(rows)
                             /\ last_call' = [op |-> "index", content |-> content,
                                              outcome |-> "returned", ret |-> id, created |-> TRUE,
                                              failing_batch |-> 0, metadata |-> metadata,
                                              embed_calls |-> NumBatches(Len(ChunkText(content)))]
                   ELSE \* get_embeddings raised on that batch: rollback and re-raise
                        /\ failing_batch <= NumBatches(Len(ChunkText(content)))
                        /\ LET pending == [documents |-> {document},
                                           chunk_rows |-> SessionRows(id, content, metadata,
                                                                      failing_batch - 1)]
                               kept == Rollback(pending)
                           IN  /\ documents' = documents \cup kept.documents
                               /\ chunk_rows' = chunk_rows \cup kept.chunk_rows
                        /\ last_call' = [op |-> "index", content |-> content,
                                         outcome |-> "raised", ret |-> None, created |-> FALSE,
                                         failing_batch |-> failing_batch,
                                         embed_calls |-> failing_batch]
                        /\ UNCHANGED chunk_seq
        /\ prev_call' = last_call

\* index_document called on its own
IndexDocument(content, source, uri, title, mime, metadata, failing_batch) ==
    /\ cpc = "idle"
    /\ IndexDocumentTx(content, source, uri, title, mime, metadata, failing_batch)
    /\ UNCHANGED <<batch_docs, doc_batch_size, batch_i, batch_j, document_ids, attempts, bpc>>
    /\ UNCHANGED <<chunkVars, searchVars, agentVars, concurrentVars>>

\* mutant of CascadeDelete: the chunks of the document stay
CascadeKeepsChunks(document_id) == chunk_rows

\* the rows of table chunks after the document was deleted (cascade
\* "all, delete-orphan" of Document.chunks, ON DELETE CASCADE of Chunk.doc_id)
CascadeDelete(document_id) == {c \in chunk_rows : c.doc_id # document_id}

\* delete_document(document_id)
DeleteDocument(document_id) ==
    LET found == {d \in documents : d.id = document_id}
    IN  /\ cpc = "idle"
        /\ IF found = {}
           THEN /\ last_call' = [op |-> "delete", document_id |-> document_id,
                                 content |-> None, outcome |-> "returned",
                                 ret |-> FALSE, created |-> FALSE, failing_batch |-> 0,
                                 embed_calls |-> 0]
                /\ UNCHANGED <<documents, chunk_rows>>
           ELSE \* db.delete(document): the chunks go with it
                /\ documents' = documents \ found
                /\ chunk_rows' = CascadeDelete(document_id)
                /\ last_call' = [op |-> "delete", document_id |-> document_id,
                                 content |-> None, outcome |-> "returned",
                                 ret |-> TRUE, created |-> FALSE, failing_batch |-> 0,
                                 embed_calls |-> 0]
        /\ prev_call' = last_call
        /\ UNCHANGED <<doc_seq, chunk_seq>>
        /\ UNCHANGED <<batch_docs, doc_batch_size, batch_i, batch_j, document_ids, attempts,
                       bpc>>
        /\ UNCHANGED <<chunkVars, searchVars, agentVars, concurrentVars>>

\* the tables are empty and no call was made
StoreIdle ==
    /\ documents = {}
    /\ chunk_rows = {}
    /\ doc_seq = 1
    /\ chunk_seq = 1
    /\ last_call = NoCall
    /\ prev_call = NoCall
    /\ batch_docs = <<>>
    /\ doc_batch_size = 0
    /\ batch_i = 0
    /\ batch_j = 0
    /\ document_ids = <<>>
    /\ attempts = <<>>
    /\ bpc = "idle"
    /\ sessions = <<>>

StoreNext ==
    \/ \E content \in StoreContents, origin \in Origins, failing_batch \in FailingBatches :
           IndexDocument(content, origin.source, origin.uri, "t1", "text/plain",
                         origin.metadata, failing_batch)
    \/ \E document_id \in 1..(MaxDocId + 1) : DeleteDocument(document_id)

-----------------------------------------------------------------------------
(* services/__init__.py: index_document calls that run concurrently, each  *)
(* in its own database session (READ COMMITTED: a session sees the rows    *)
(* other sessions have committed)                                          *)

\* the existence check: "existing_doc = db.query(Document).filter(...).first()"
\* and the early return
SessionCheck(s) ==
    /\ bpc = "concurrent"
    /\ sessions[s].pc = "start"
    /\ LET existing == LookupByHash(sessions[s].content, sessions[s].uri)
       IN  sessions' = [sessions EXCEPT ![s] =
                           IF existing # {}
                           THEN [@ EXCEPT !.pc = "done", !.outcome = "returned",
                                          !.ret = ExistingId(existing)]
                           ELSE [@ EXCEPT !.pc = "checked"]]
    /\ UNCHANGED <<storeVars, requests>>
    /\ UNCHANGED <<chunkVars, searchVars, agentVars>>

\* "db.add(document); db.flush()": the INSERT draws the id and meets the
\* unique index on content_hash. It waits while another session holds an
\* uncommitted row with the same hash; when a row with the hash is committed
\* it fails with IntegrityError, which index_document rolls back and re-raises.
SessionFlush(s) ==
    /\ bpc = "concurrent"
    /\ sessions[s].pc = "checked"
    /\ ~\E o \in DOMAIN sessions \ {s} :
            sessions[o].pc = "flushed" /\ sessions[o].content = sessions[s].content
    /\ doc_seq' = doc_seq + 1
    /\ sessions' = [sessions EXCEPT ![s] =
                        IF ExistingDoc(ContentHash(sessions[s].content)) # {}
                        THEN [@ EXCEPT !.pc = "done", !.outcome = "raised"]
                        ELSE [@ EXCEPT !.pc = "flushed", !.id = doc_seq]]
    /\ UNCHANGED <<documents, chunk_rows, chunk_seq, last_call, prev_call>>
    /\ UNCHANGED <<batch_docs, doc_batch_size, batch_i, batch_j, document_ids, attempts, bpc>>
    /\ UNCHANGED <<chunkVars, searchVars, agentVars, requests>>

\* the chunks are embedded and added, then "db.commit(); return document.id"
SessionCommit(s) ==
    /\ bpc = "concurrent"
    /\ sessions[s].pc = "flushed"
    /\ LET id == sessions[s].id
           rows == NewChunkRows(id, sessions[s].content, NoMetadata)
       IN  /\ documents' = documents \cup
                   {[id |-> id, source |-> sessions[s].source, uri |-> sessions[s].uri,
                     title |-> "t1", mime |-> "text/plain",
                     content_hash |-> ContentHash(sessions[s].content)]}
           /\ chunk_rows' = chunk_rows \cup rows
           /\ chunk_seq' = chunk_seq + Cardinality(rows)
           /\ sessions' = [sessions EXCEPT ![s] =
                               [@ EXCEPT !.pc = "done", !.outcome = "returned", !.ret = id]]
    /\ UNCHANGED <<doc_seq, last_call, prev_call>>
    /\ UNCHANGED <<batch_docs, doc_batch_size, batch_i, batch_j, document_ids, attempts, bpc>>
    /\ UNCHANGED <<chunkVars, searchVars, agentVars, requests>>

ConcurrentIngestNext ==
    \/ \E s \in 1..2 : SessionCheck(s)
    \/ \E s \in 1..2 : SessionFlush(s)
    \/ \E s \in 1..2 : SessionCommit(s)

-----------------------------------------------------------------------------
(* rag_service.py: RAGService.index_document, batch_index_documents *)

\* the keys RAGService.index_document adds to the caller's metadata
DocMetadata(metadata) == Merge(metadata, [indexed_by |-> "rag_service"])

\* mutant of BatchSlice: the slice is one document short
BatchSliceShort(docs, i, size) == Slice(docs, i, Min2(i + size - 1, Len(docs)))

\* batch = documents[i:i + batch_size]
BatchSlice(docs, i, size) == Slice(docs, i, Min2(i + size, Len(docs)))

\* the dictionaries of a batch call: the keys source, uri, title, mime and
\* metadata are read with get, the key content with doc["content"], which
\* raises KeyError when the dictionary has none
BatchDocs ==
    { [has_content |-> TRUE, content |-> <<"A">>, source |-> "github", uri |-> "u1"],
      [has_content |-> TRUE, content |-> Word("A", BatchSize + 1), source |-> "github",
       uri |-> "u2"],
      [has_content |-> FALSE, content |-> NoText, source |-> "gdrive", uri |-> "u1"] }

\* every list of at most n documents
RECURSIVE DocListsUpTo(_)
DocListsUpTo(n) ==
    IF n = 0 THEN {<<>>}
    ELSE LET shorter == DocListsUpTo(n - 1)
         IN  shorter \cup {Append(l, d) : l \in {u \in shorter : Len(u) = n - 1}, d \in BatchDocs}

\* the loops move on: the next document of the batch, or the next batch
BatchAdvance ==
    IF batch_j + 1 < Len(BatchSlice(batch_docs, batch_i, doc_batch_size))
    THEN /\ batch_j' = batch_j + 1
         /\ UNCHANGED batch_i
    ELSE /\ batch_i' = batch_i + doc_batch_size
         /\ batch_j' = 0

\* one iteration of "for doc in batch": index_document in a try block; its
\* id is appended when it returns, the exception is logged when it raises
BatchStep ==
    /\ bpc = "running"
    /\ batch_i < Len(batch_docs)
    /\ LET batch == BatchSlice(batch_docs, batch_i, doc_batch_size)
           doc == batch[batch_j + 1]
           position == batch_i + batch_j + 1
       IN  /\ batch # <<>>
           /\ IF doc.has_content
              THEN /\ \E failing_batch \in FailingBatches :
                         IndexDocumentTx(doc.content, doc.source, doc.uri, None, None,
                                         DocMetadata(NoMetadata), failing_batch)
                   /\ attempts' = Append(attempts, [position |-> position,
                                                    outcome |-> last_call'.outcome,
                                                    ret |-> last_call'.ret])
                   /\ document_ids' = IF last_call'.outcome = "returned"
                                      THEN Append(document_ids, last_call'.ret)
                                      ELSE document_ids
              ELSE \* KeyError: 'content'
                   /\ attempts' = Append(attempts, [position |-> position,
                                                    outcome |-> "raised", ret |-> None])
                   /\ UNCHANGED <<documents, chunk_rows, doc_seq, chunk_seq, last_call,
                                  prev_call, document_ids>>
    /\ BatchAdvance
    /\ UNCHANGED <<batch_docs, doc_batch_size, bpc>>
    /\ UNCHANGED <<chunkVars, searchVars, agentVars, concurrentVars>>

\* the outer loop is over: return document_ids
BatchReturn ==
    /\ bpc = "running"
    /\ batch_i >= Len(batch_docs)
    /\ bpc' = "done"
    /\ UNCHANGED <<documents, chunk_rows, doc_seq, chunk_seq, last_call, prev_call>>
    /\ UNCHANGED <<batch_docs, doc_batch_size, batch_i, batch_j, document_ids, attempts>>
    /\ UNCHANGED <<chunkVars, searchVars, agentVars, concurrentVars>>

\* the batch, and delete_document calls of other requests in between
BatchNext ==
    \/ BatchStep
    \/ BatchReturn
    \/ \E document_id \in 1..(MaxDocId + 1) : DeleteDocument(document_id)

-----------------------------------------------------------------------------
(* app.py: the reindex loop of github_webhook and the loops of sync_task.   *)
(* The documents of the sync result are held in batch_docs, the loop index  *)
(* in batch_i, the ids returned in document_ids (indexed_count is their     *)
(* number) and the entry point in endpoint.                                 *)

\* rag_service.index_document on the next document of the sync result
IndexNextDocument ==
    LET doc == batch_docs[batch_i + 1]
    IN  /\ \E failing_batch \in FailingBatches :
              IndexDocumentTx(doc.content, doc.source, doc.uri, "t1", "text/plain",
                              DocMetadata(NoMetadata), failing_batch)
        /\ attempts' = Append(attempts, [position |-> batch_i + 1,
                                         outcome |-> last_call'.outcome,
                                         ret |-> last_call'.ret])
        /\ document_ids' = IF last_call'.outcome = "returned"
                           THEN Append(document_ids, last_call'.ret)
                           ELSE document_ids

\* github_webhook: one iteration of "for doc in result.get('documents', [])";
\* the try block is around the whole loop, so an exception of index_document
\* ends the reindex ("Webhook reindex failed")
WebhookReindexStep ==
    /\ endpoint = "/webhook/github"
    /\ bpc = "running"
    /\ batch_i < Len(batch_docs)
    /\ IndexNextDocument
    /\ IF last_call'.outcome = "returned"
       THEN batch_i' = batch_i + 1 /\ UNCHANGED bpc
       ELSE bpc' = "done" /\ UNCHANGED batch_i
    /\ UNCHANGED <<batch_docs, doc_batch_size, batch_j>>
    /\ UNCHANGED <<table, search_req, fetched, search_out, spc, endpoint, http_status,
                   queries_run>>
    /\ UNCHANGED <<chunkVars, agentVars, concurrentVars>>

\* sync_task: one iteration of "for doc in github_result['documents']" (or
\* gdrive_result's); the try block is inside the loop, an exception of
\* index_document is logged and the loop goes on
SyncTaskStep ==
    /\ endpoint = "/sync_sources"
    /\ bpc = "running"
    /\ batch_i < Len(batch_docs)
    /\ IndexNextDocument
    /\ batch_i' = batch_i + 1
    /\ UNCHANGED <<batch_docs, doc_batch_size, batch_j, bpc>>
    /\ UNCHANGED <<table, search_req, fetched, search_out, spc, endpoint, http_status,
                   queries_run>>
    /\ UNCHANGED <<chunkVars, agentVars, concurrentVars>>

\* the loop is over
SyncLoopEnds ==
    /\ endpoint \in {"/webhook/github", "/sync_sources"}
    /\ bpc = "running"
    /\ batch_i >= Len(batch_docs)
    /\ bpc' = "done"
    /\ UNCHANGED <<documents, chunk_rows, doc_seq, chunk_seq, last_call, prev_call>>
    /\ UNCHANGED <<batch_docs, doc_batch_size, batch_i, batch_j, document_ids, attempts>>
    /\ UNCHANGED <<chunkVars, searchVars, agentVars, concurrentVars>>

SyncNext == WebhookReindexStep \/ SyncTaskStep \/ SyncLoopEnds

-----------------------------------------------------------------------------
(* services/__init__.py: DatabaseService.search; rag_service.py: RAGService.search *)

(* Distances and similarities are counted in units of 1/Scale: a distance d  *)
(* stands for d/Scale, a threshold t for t/Scale, and 1.0 - distance is      *)
(* Scale - d. The L2 distance of pgvector's <-> is not bounded by 1.         *)

\* what a row of the join carries besides its id and distance: the columns
\* of its document and the chunk_metadata the ingestion stored
RowKinds ==
    { [source |-> "github", uri |-> <<"u">>, title |-> <<"T", "a">>, mime |-> "text/markdown",
       metadata |-> [title |-> <<"T", "a">>, uri |-> <<"u">>, repo |-> "r1",
                     mime |-> "text/markdown", source |-> None]],
      [source |-> "github", uri |-> <<"v">>, title |-> <<"T", "b">>, mime |-> "text/plain",
       metadata |-> [title |-> <<"T", "b">>, uri |-> NoText, repo |-> "r2",
                     mime |-> "text/plain", source |-> None]],
      [source |-> "gdrive", uri |-> <<"w">>, title |-> <<"T", "c">>, mime |-> "text/plain",
       metadata |-> [title |-> NoText, uri |-> NoText, repo |-> None,
                     mime |-> None, source |-> None]] }

\* the row with id i of kind k at distance d; its text is a chunk text
Row(i, k, d) ==
    [chunk_id |-> i, text |-> <<"A", "sp", "B">>, chunk_metadata |-> k.metadata,
     source |-> k.source, uri |-> k.uri, title |-> k.title, mime |-> k.mime, distance |-> d]

\* every table of exactly n rows, the rows numbered in insertion order
RECURSIVE TablesOfLen(_)
TablesOfLen(n) ==
    IF n = 0 THEN {<<>>}
    ELSE {Append(t, Row(n, k, d)) : t \in TablesOfLen(n - 1), k \in RowKinds, d \in 0..MaxDistance}

Tables == UNION {TablesOfLen(n) : n \in 0..MaxRows}

\* tables of three rows, for searches in which a row between two returned
\* rows is filtered out
ThreeRowTables ==
    {<<Row(1, k1, d1), Row(2, k2, d2), Row(3, k3, d3)>> :
        k1 \in RowKinds, k2 \in RowKinds, k3 \in RowKinds,
        d1 \in 1..2, d2 \in 1..2, d3 \in 1..3}

\* mutant of DistanceOrders: the query has no ORDER BY
DistanceOrdersAny(t) ==
    {p \in [1..Len(t) -> 1..Len(t)] : \A i, j \in 1..Len(t) : i # j => p[i] # p[j]}

\* ORDER BY distance: the orders the database may return the rows in
\* (rows at the same distance come in any order)
DistanceOrders(t) ==
    {p \in [1..Len(t) -> 1..Len(t)] :
        /\ \A i, j \in 1..Len(t) : i # j => p[i] # p[j]
        /\ \A i \in 1..(Len(t) - 1) : t[p[i]].distance <= t[p[i + 1]].distance}

\* the rows of ORDER BY distance LIMIT limit, in the order p
FetchAll(t, p, limit) == [i \in 1..Min2(limit, Len(t)) |-> t[p[i]]]

\* Python truthiness of an Optional[str]
Truthy(x) == x # None /\ x # ""

\* Python truthiness of an Optional[float]
TruthyNumber(x) == x # NoNumber /\ x[1] # 0

\* "if similarity_threshold and row.distance > similarity_threshold: continue"
SkipRow(row, similarity_threshold) ==
    TruthyNumber(similarity_threshold) /\ row.distance > similarity_threshold[1]

\* the result dictionary DatabaseService.search builds for a row
ResultOf(row) ==
    [chunk_id |-> row.chunk_id, text |-> row.text, metadata |-> row.chunk_metadata,
     document |-> [source |-> row.source, uri |-> row.uri, title |-> row.title, mime |-> row.mime],
     similarity_score |-> Scale - row.distance, distance |-> row.distance]

\* the subsequence of s at the positions in I, in order (a list
\* comprehension with a condition)
Pick(s, I) ==
    [j \in 1..Cardinality(I) |->
        s[CHOOSE i \in I : Cardinality({k \in I : k < i}) = j - 1]]

\* DatabaseService.search on the fetched rows
DatabaseSearch(rows, similarity_threshold) ==
    LET kept == Pick(rows, {i \in 1..Len(rows) : ~SkipRow(rows[i], similarity_threshold)})
    IN  [i \in 1..Len(kept) |-> ResultOf(kept[i])]

\* result.get("document", {}).get("source") == source_filter
SourceMatches(result, source_filter) == result.document.source = source_filter

\* RAGService.search: the vector search, then the source filter
RAGSearch(rows, similarity_threshold, source_filter) ==
    LET found == DatabaseSearch(rows, similarity_threshold)
    IN  IF Truthy(source_filter)
        THEN Pick(found, {i \in 1..Len(found) : SourceMatches(found[i], source_filter)})
        ELSE found

SourceFilters == {None, "github", "gdrive"}

\* RAGService.search(query, limit, similarity_threshold, source_filter)
Search(limit, similarity_threshold, source_filter) ==
    /\ spc = "idle"
    /\ spc' = "done"
    /\ \E p \in DistanceOrders(table) :
          /\ fetched' = FetchAll(table, p, limit)
          /\ search_out' = RAGSearch(fetched', similarity_threshold, source_filter)
    /\ search_req' = [limit |-> limit, similarity_threshold |-> similarity_threshold,
                      source_filter |-> source_filter]
    /\ UNCHANGED <<table, endpoint, http_status, queries_run>>
    /\ UNCHANGED <<chunkVars, storeVars, agentVars, concurrentVars>>

NoSearch == [limit |-> 0, similarity_threshold |-> NoNumber, source_filter |-> None]

\* Field(10, ge=1, le=100) of app.py's SearchRequest.limit
MinLimit == 1

MaxLimit == 100

\* the validation of the request model of an endpoint: the Field bounds of
\* app.py's SearchRequest; main.py's SearchRequest declares the types only
RequestValid(ep, limit, similarity_threshold) ==
    IF ep = "/mcp/search_documents"
    THEN /\ limit >= MinLimit /\ limit <= MaxLimit
         /\ similarity_threshold # NoNumber =>
               (similarity_threshold[1] >= 0 /\ similarity_threshold[1] <= Scale)
    ELSE TRUE

\* POST of a search request to an endpoint: the request model is validated
\* (422), then rag_service.search embeds the query and queries the store; an
\* exception (the database rejects a negative LIMIT) becomes a 500
SearchEndpoint(ep, limit, similarity_threshold, source_filter) ==
    /\ spc = "idle"
    /\ spc' = "done"
    /\ endpoint' = ep
    /\ search_req' = [limit |-> limit, similarity_threshold |-> similarity_threshold,
                      source_filter |-> source_filter]
    /\ IF ~RequestValid(ep, limit, similarity_threshold)
       THEN /\ http_status' = 422
            /\ UNCHANGED <<fetched, search_out, queries_run>>
       ELSE /\ queries_run' = queries_run + 1
            /\ IF limit < 0
               THEN /\ http_status' = 500
                    /\ UNCHANGED <<fetched, search_out>>
               ELSE /\ http_status' = 200
                    /\ \E p \in DistanceOrders(table) :
                          /\ fetched' = FetchAll(table, p, limit)
                          /\ search_out' = RAGSearch(fetched', similarity_threshold,
                                                     source_filter)
    /\ UNCHANGED table
    /\ UNCHANGED <<chunkVars, storeVars, agentVars, concurrentVars>>

\* no search was made on an empty table
SearchIdle ==
    /\ table = <<>>
    /\ search_req = NoSearch
    /\ fetched = <<>>
    /\ search_out = <<>>
    /\ spc = "idle"
    /\ endpoint = "none"
    /\ http_status = 0
    /\ queries_run = 0

-----------------------------------------------------------------------------
(* agent.py: DocPilotAgent._build_rag_prompt, _extract_sources *)

\* an Optional[str] argument: None is the empty tuple, a string s is <<s>>
NoString == <<>>

\* Python truthiness of an Optional[str] given that way
TruthyString(x) == x # NoString /\ x[1] # NoText

Digit(n) == << <<"0">>, <<"1">>, <<"2">>, <<"3">>, <<"4">>, <<"5">>, <<"6">>, <<"7">>, <<"8">>, <<"9">> >>[n + 1]

\* str(n) for n >= 0
RECURSIVE Decimal(_)
Decimal(n) == IF n < 10 THEN Digit(n) ELSE Decimal(n \div 10) \o Digit(n % 10)

\* f"{similarity:.3f}" for the similarity sim / Scale
FormatSimilarity(sim) ==
    LET mag == IF sim < 0 THEN -sim ELSE sim
        thousandths == (2000 * mag + Scale) \div (2 * Scale)
        frac == thousandths % 1000
    IN  (IF sim < 0 /\ thousandths > 0 THEN <<"-">> ELSE <<>>)
        \o Decimal(thousandths \div 1000) \o <<"dot">>
        \o Digit(frac \div 100) \o Digit((frac \div 10) % 10) \o Digit(frac % 10)

\* result.get("content", "")
ContentOf(result) == IF "content" \in DOMAIN result THEN result.content ELSE NoText

\* "[Source i+1]", then the title and the uri when there are any, then the
\* similarity; i is the 0-based position of the result
SourceInfo(i, result) ==
    LET title == result.metadata.title
        uri == result.metadata.uri
    IN  <<"[", "S", "o", "u", "r", "c", "e", "sp">> \o Decimal(i + 1) \o <<"]">>
        \o (IF title # NoText THEN <<"sp">> \o title ELSE <<>>)
        \o (IF uri # NoText THEN <<"sp", "(">> \o uri \o <<")">> ELSE <<>>)
        \o <<"sp", "-", "sp", "S", "i", "m", "i", "l", "a", "r", "i", "t", "é", ":", "sp">> \o FormatSimilarity(result.similarity_score)

\* chunk_text = f"{source_info}\n{content}\n"
Rendered(i, result) == SourceInfo(i, result) \o <<"nl">> \o ContentOf(result) \o <<"nl">>

\* the delimiter line between rendered candidates
Delimiter == <<"nl", "-", "-", "-", "nl">>

\* delimiter.join(parts)
RECURSIVE Join(_)
Join(parts) ==
    IF parts = <<>> THEN <<>>
    ELSE IF Len(parts) = 1 THEN parts[1]
    ELSE parts[1] \o Delimiter \o Join(Tail(parts))

\* mutant of ContextParts: a candidate that overflows is skipped and the loop
\* goes on with the next one
RECURSIVE ContextPartsSkip(_, _, _, _, _)
ContextPartsSkip(results, limit, i, total_length, parts) ==
    IF i > Len(results) THEN parts
    ELSE LET part == Rendered(i - 1, results[i])
         IN  IF total_length + Len(part) > limit
             THEN ContextPartsSkip(results, limit, i + 1, total_length, parts)
             ELSE ContextPartsSkip(results, limit, i + 1, total_length + Len(part),
                                   Append(parts, part))

\* the loop of _build_rag_prompt from result number i (1-based here) on
RECURSIVE ContextParts(_, _, _, _, _)
ContextParts(results, limit, i, total_length, parts) ==
    IF i > Len(results) THEN parts
    ELSE LET part == Rendered(i - 1, results[i])
         IN  IF total_length + Len(part) > limit THEN parts
             ELSE ContextParts(results, limit, i + 1, total_length + Len(part), Append(parts, part))

\* _build_rag_prompt: the candidates included and the documentary context
BuildRagPrompt(results, limit) ==
    LET parts == ContextParts(results, limit, 1, 0, <<>>)
    IN  [included |-> Len(parts), context |-> Join(parts)]

\* metadata.get(key, default) for a string key
GetOr(value, default) == IF value = None THEN default ELSE value

\* mutant of ExtractSources: no source is attributed
ExtractSourcesNone(results) == <<>>

\* _extract_sources(search_results)
ExtractSources(results) ==
    [i \in 1..Len(results) |->
        [index |-> i, source |-> GetOr(results[i].metadata.source, "unknown"),
         repo |-> GetOr(results[i].metadata.repo, ""),
         mime |-> GetOr(results[i].metadata.mime, ""),
         similarity_score |-> results[i].similarity_score, chunk_id |-> results[i].chunk_id]]

-----------------------------------------------------------------------------
(* agent.py: DocPilotAgent.ask; observability.py: MetricsCollector *)

\* min_context_chunks, as DocPilotAgent defaults it
MinContextChunks == 2

\* max_context_length, as DocPilotAgent defaults it
DefaultMaxContextLength == 8000

\* SearchFilter.top_k's default
DefaultTopK == 10

LimitStep == 8

\* the max_context_length values the prompt is assembled under
ContextLimits == {LimitStep * k : k \in 1..MaxLimitSteps} \cup {DefaultMaxContextLength}

\* str(e) of the exceptions the search and the generation raise; an httpx
\* timeout has an empty message
ExceptionMessages == {NoText, <<"b", "o", "o", "m">>}

\* what the generation returns
GeneratedTexts == {<<"V", "o", "i", "r", "sp", "[", "S", "o", "u", "r", "c", "e", "sp", "1", "]">>, <<"J", "e", "sp", "n", "e", "sp", "s", "a", "i", "s", "sp", "p", "a", "s">>, <<"I", "N", "F", "O", "R", "M", "A", "T", "I", "O", "N", "S", "sp", "I", "N", "S", "U", "F", "F", "I", "S", "A", "N", "T", "E", "S">>}

UpperToLower ==
    [c \in {"J", "V", "N", "S", "A", "I", "P", "E", "F", "O", "R", "M", "T", "U"} |->
        CASE c = "J" -> "j"
          [] c = "V" -> "v"
          [] c = "N" -> "n"
          [] c = "S" -> "s"
          [] c = "A" -> "a"
          [] c = "I" -> "i"
          [] c = "P" -> "p"
          [] c = "E" -> "e"
          [] c = "F" -> "f"
          [] c = "O" -> "o"
          [] c = "R" -> "r"
          [] c = "M" -> "m"
          [] c = "T" -> "t"
          [] c = "U" -> "u"]

\* str.lower()
Lower(t) == [i \in 1..Len(t) |-> IF t[i] \in DOMAIN UpperToLower THEN UpperToLower[t[i]] ELSE t[i]]

\* phrase in t
Contains(t, phrase) ==
    \E i \in 0..(Len(t) - Len(phrase)) : \A k \in 1..Len(phrase) : t[i + k] = phrase[k]

FallbackPhrases == {<<"j", "e", "sp", "n", "e", "sp", "t", "r", "o", "u", "v", "e", "sp", "p", "a", "s">>, <<"j", "e", "sp", "n", "e", "sp", "s", "a", "i", "s", "sp", "p", "a", "s">>, <<"i", "n", "f", "o", "r", "m", "a", "t", "i", "o", "n", "s", "sp", "i", "n", "s", "u", "f", "f", "i", "s", "a", "n", "t", "e", "s">>, <<"p", "a", "s", "sp", "d", "'", "i", "n", "f", "o", "r", "m", "a", "t", "i", "o", "n", "s", "sp", "p", "e", "r", "t", "i", "n", "e", "n", "t", "e", "s">>}

\* mutant of IsFallbackAnswer: the answer is matched as it is written
IsFallbackAnswerCaseSensitive(ai_response) ==
    \E phrase \in FallbackPhrases : Contains(ai_response, phrase)

\* any(phrase in ai_response.lower() for phrase in fallback_phrases)
IsFallbackAnswer(ai_response) == \E phrase \in FallbackPhrases : Contains(Lower(ai_response), phrase)

NoFilters == [source |-> None, repo |-> None, mime |-> None, top_k |-> DefaultTopK, similarity_threshold |-> 0]

NoResponse == [answer |-> [kind |-> "none", text |-> NoText], sources |-> <<>>, trace_id |-> 0,
               chunks_scanned |-> 0, fallback_used |-> FALSE]

NoPrompt == [included |-> 0, context |-> NoText]

\* mutant of RecordRequest: a failed request is not counted in the total
RecordRequestSkipsFailed(stats, resp, error) ==
    [total_requests |-> stats.total_requests + (IF TruthyString(error) THEN 0 ELSE 1),
     failed_requests |-> stats.failed_requests + (IF TruthyString(error) THEN 1 ELSE 0),
     successful_requests |-> stats.successful_requests + (IF TruthyString(error) THEN 0 ELSE 1),
     fallback_count |-> stats.fallback_count + (IF resp.fallback_used THEN 1 ELSE 0)]

\* "if metrics.error:" of record_request
RecordedAsFailed(error) == TruthyString(error)

\* MetricsCollector.record_request on the RequestMetrics that
\* _complete_request_logging builds from the response and the error
RecordRequest(stats, resp, error) ==
    [total_requests |-> stats.total_requests + 1,
     failed_requests |-> stats.failed_requests + (IF RecordedAsFailed(error) THEN 1 ELSE 0),
     successful_requests |-> stats.successful_requests + (IF RecordedAsFailed(error) THEN 0 ELSE 1),
     fallback_count |-> stats.fallback_count + (IF resp.fallback_used THEN 1 ELSE 0)]

RequestMetricsOf(resp, error) ==
    [trace_id |-> resp.trace_id, chunks_scanned |-> resp.chunks_scanned,
     chunks_used |-> Len(resp.sources), fallback_used |-> resp.fallback_used, error |-> error]

\* _complete_request_logging(..., response, ..., error)
CompleteRequestLogging(resp, error) ==
    /\ metrics' = Append(metrics, RequestMetricsOf(resp, error))
    /\ session_stats' = RecordRequest(session_stats, resp, error)

\* the except branch of ask: the error response, logged with the message
ErrorResponse(error_msg) ==
    [answer |-> [kind |-> "error", text |-> error_msg], sources |-> <<>>, trace_id |-> trace_id,
     chunks_scanned |-> 0, fallback_used |-> TRUE]

\* "except Exception as e": error_msg = str(e), the response, the logging
HandleException(error_msg) ==
    /\ response' = ErrorResponse(error_msg)
    /\ ask_raised' = FALSE
    /\ CompleteRequestLogging(ErrorResponse(error_msg), Given(error_msg))
    /\ apc' = "returned"

\* the payload MCPClient.search_documents posts to /search
SearchPayload(f) ==
    [limit |-> f.top_k, similarity_threshold |-> Given(f.similarity_threshold),
     source_filter |-> IF Truthy(f.source) THEN f.source ELSE None]

\* mutant of SearchDocumentsPosts: a failed or short search is posted again
SearchDocumentsRetries(calls) == calls + 2

\* the POSTs to /search once search_documents was awaited: one more, there
\* is no retry loop around client.post
SearchDocumentsPosts(calls) == calls + 1

\* mutant of TooFewChunks: the comparison is off by one
TooFewChunksOffByOne(chunks_scanned) == chunks_scanned < MinContextChunks - 1

\* "if chunks_scanned < self.min_context_chunks"
TooFewChunks(chunks_scanned) == chunks_scanned < MinContextChunks

\* ask begins: the trace id, the filters, the request log
AskStart(f) ==
    /\ apc = "idle"
    /\ trace_id < MaxRequests
    /\ trace_id' = trace_id + 1
    /\ filters' = f
    /\ apc' = "searching"
    /\ search_results' = <<>>
    /\ prompt' = NoPrompt
    /\ response' = NoResponse
    /\ ask_raised' = FALSE
    /\ search_calls' = 0
    /\ gen_calls' = 0
    /\ UNCHANGED <<max_context_length, session_stats, metrics>>
    /\ UNCHANGED <<chunkVars, storeVars, searchVars, concurrentVars>>

\* the search call returns its results: the fallback when they are too few,
\* else the prompt is built and the generation is called
AskSearchReturns ==
    /\ apc = "searching"
    /\ search_calls' = SearchDocumentsPosts(search_calls)
    /\ \E p \in DistanceOrders(table) :
          LET payload == SearchPayload(filters)
              results == RAGSearch(FetchAll(table, p, payload.limit),
                                   payload.similarity_threshold, payload.source_filter)
              chunks_scanned == Len(results)
              fallback == [answer |-> [kind |-> "canned", text |-> NoText], sources |-> <<>>,
                           trace_id |-> trace_id, chunks_scanned |-> chunks_scanned,
                           fallback_used |-> TRUE]
          IN  /\ search_results' = results
              /\ IF TooFewChunks(chunks_scanned)
                 THEN /\ response' = fallback
                      /\ CompleteRequestLogging(fallback, NoString)
                      /\ apc' = "returned"
                      /\ UNCHANGED <<prompt, gen_calls>>
                 ELSE /\ prompt' = BuildRagPrompt(results, max_context_length)
                      /\ gen_calls' = gen_calls + 1
                      /\ apc' = "generating"
                      /\ UNCHANGED <<response, session_stats, metrics>>
    /\ UNCHANGED <<max_context_length, filters, trace_id, ask_raised>>
    /\ UNCHANGED <<chunkVars, storeVars, searchVars, concurrentVars>>

\* the search call raises (httpx.RequestError, httpx.HTTPStatusError)
AskSearchRaises(error_msg) ==
    /\ apc = "searching"
    /\ search_calls' = SearchDocumentsPosts(search_calls)
    /\ HandleException(error_msg)
    /\ UNCHANGED <<max_context_length, filters, trace_id, search_results, prompt, gen_calls>>
    /\ UNCHANGED <<chunkVars, storeVars, searchVars, concurrentVars>>

\* generate_response returns ai_response
AskGenerateReturns(ai_response) ==
    /\ apc = "generating"
    /\ LET resp == [answer |-> [kind |-> "generated", text |-> ai_response],
                    sources |-> ExtractSources(search_results),
                    trace_id |-> trace_id, chunks_scanned |-> Len(search_results),
                    fallback_used |-> IsFallbackAnswer(ai_response)]
       IN  /\ response' = resp
           /\ CompleteRequestLogging(resp, NoString)
    /\ apc' = "returned"
    /\ UNCHANGED <<max_context_length, filters, trace_id, search_results, prompt, ask_raised,
                   search_calls, gen_calls>>
    /\ UNCHANGED <<chunkVars, storeVars, searchVars, concurrentVars>>

\* generate_response raises
AskGenerateRaises(error_msg) ==
    /\ apc = "generating"
    /\ HandleException(error_msg)
    /\ UNCHANGED <<max_context_length, filters, trace_id, search_results, prompt,
                   search_calls, gen_calls>>
    /\ UNCHANGED <<chunkVars, storeVars, searchVars, concurrentVars>>

\* the caller has the response; the agent is ready for the next request
AskDone ==
    /\ apc = "returned"
    /\ apc' = "idle"
    /\ UNCHANGED <<max_context_length, filters, trace_id, search_results, prompt, response,
                   ask_raised, search_calls, gen_calls, session_stats, metrics>>
    /\ UNCHANGED <<chunkVars, storeVars, searchVars, concurrentVars>>

\* the SearchFilter values of the requests: at most one of source, repo and
\* mime is set
SearchFilters ==
    {[source |-> so, repo |-> re, mime |-> mi, top_k |-> k, similarity_threshold |-> t] :
        so \in SourceFilters, re \in {None, "r1", "r2"},
        mi \in {None, "text/markdown", "text/plain"},
        k \in {1, DefaultTopK}, t \in {1, Scale}}

\* the agent is constructed and has served no request
AgentIdle ==
    /\ max_context_length = DefaultMaxContextLength
    /\ apc = "idle"
    /\ filters = NoFilters
    /\ trace_id = 0
    /\ search_results = <<>>
    /\ prompt = NoPrompt
    /\ response = NoResponse
    /\ ask_raised = FALSE
    /\ search_calls = 0
    /\ gen_calls = 0
    /\ session_stats = [total_requests |-> 0, successful_requests |-> 0, failed_requests |-> 0,
                        fallback_count |-> 0]
    /\ metrics = <<>>
    /\ requests = <<>>

\* the tables the agent's requests search: rows at distance 0 or MaxDistance
AskTables == {t \in Tables : \A i \in 1..Len(t) : t[i].distance \in {0, MaxDistance}}

AskInit ==
    /\ ChunkIdle
    /\ StoreIdle
    /\ table \in AskTables
    /\ search_req = NoSearch
    /\ fetched = <<>>
    /\ search_out = <<>>
    /\ spc = "idle"
    /\ endpoint = "none"
    /\ http_status = 0
    /\ queries_run = 0
    /\ max_context_length \in {LimitStep * 5, DefaultMaxContextLength}
    /\ apc = "idle"
    /\ filters = NoFilters
    /\ trace_id = 0
    /\ search_results = <<>>
    /\ prompt = NoPrompt
    /\ response = NoResponse
    /\ ask_raised = FALSE
    /\ search_calls = 0
    /\ gen_calls = 0
    /\ session_stats = [total_requests |-> 0, successful_requests |-> 0, failed_requests |-> 0,
                        fallback_count |-> 0]
    /\ metrics = <<>>
    /\ requests = <<>>

AskNext ==
    \/ \E f \in {g \in SearchFilters :
                 Cardinality({x \in {"source", "repo", "mime"} : g[x] # None}) <= 1} :
          AskStart(f)
    \/ AskSearchReturns
    \/ \E error_msg \in ExceptionMessages : AskSearchRaises(error_msg)
    \/ \E ai_response \in GeneratedTexts : AskGenerateReturns(ai_response)
    \/ \E error_msg \in ExceptionMessages : AskGenerateRaises(error_msg)
    \/ AskDone

SpecAsk == AskInit /\ [][AskNext]_vars

-----------------------------------------------------------------------------
(* agent.py: ask calls that run concurrently on one agent. The coroutines  *)
(* interleave at their awaits (the search and the generation);             *)
(* _complete_request_logging has no await and runs as one step.            *)

\* ask begins: its own trace id (uuid4, here the next number) and filters
AskCallStart(r, f) ==
    /\ apc = "concurrent"
    /\ requests[r].pc = "idle"
    /\ trace_id' = trace_id + 1
    /\ requests' = [requests EXCEPT ![r] = [@ EXCEPT !.pc = "searching",
                                                    !.trace_id = trace_id + 1,
                                                    !.filters = f]]
    /\ UNCHANGED <<max_context_length, apc, filters, search_results, prompt, response,
                   ask_raised, search_calls, gen_calls, session_stats, metrics>>
    /\ UNCHANGED <<chunkVars, storeVars, searchVars, sessions>>

\* the search of call r returns: the canned fallback when the results are
\* too few, else the generation is awaited
AskCallSearchReturns(r) ==
    /\ apc = "concurrent"
    /\ requests[r].pc = "searching"
    /\ \E p \in DistanceOrders(table) :
          LET payload == SearchPayload(requests[r].filters)
              results == RAGSearch(FetchAll(table, p, payload.limit),
                                   payload.similarity_threshold, payload.source_filter)
              fallback == [answer |-> [kind |-> "canned", text |-> NoText], sources |-> <<>>,
                           trace_id |-> requests[r].trace_id,
                           chunks_scanned |-> Len(results), fallback_used |-> TRUE]
          IN  IF TooFewChunks(Len(results))
              THEN /\ requests' = [requests EXCEPT ![r] =
                                      [@ EXCEPT !.pc = "returned", !.search_results = results,
                                                !.response = fallback]]
                   /\ CompleteRequestLogging(fallback, NoString)
              ELSE /\ requests' = [requests EXCEPT ![r] =
                                      [@ EXCEPT !.pc = "generating",
                                                !.search_results = results]]
                   /\ UNCHANGED <<session_stats, metrics>>
    /\ UNCHANGED <<max_context_length, apc, filters, trace_id, search_results, prompt,
                   response, ask_raised, search_calls, gen_calls>>
    /\ UNCHANGED <<chunkVars, storeVars, searchVars, sessions>>

\* the generation of call r returns ai_response
AskCallGenerateReturns(r, ai_response) ==
    /\ apc = "concurrent"
    /\ requests[r].pc = "generating"
    /\ LET resp == [answer |-> [kind |-> "generated", text |-> ai_response],
                    sources |-> ExtractSources(requests[r].search_results),
                    trace_id |-> requests[r].trace_id,
                    chunks_scanned |-> Len(requests[r].search_results),
                    fallback_used |-> IsFallbackAnswer(ai_response)]
       IN  /\ requests' = [requests EXCEPT ![r] = [@ EXCEPT !.pc = "returned",
                                                           !.response = resp]]
           /\ CompleteRequestLogging(resp, NoString)
    /\ UNCHANGED <<max_context_length, apc, filters, trace_id, search_results, prompt,
                   response, ask_raised, search_calls, gen_calls>>
    /\ UNCHANGED <<chunkVars, storeVars, searchVars, sessions>>

\* the search or the generation of call r raises: the except branch of ask
AskCallRaises(r, error_msg) ==
    /\ apc = "concurrent"
    /\ requests[r].pc \in {"searching", "generating"}
    /\ LET resp == [ErrorResponse(error_msg) EXCEPT !.trace_id = requests[r].trace_id]
       IN  /\ requests' = [requests EXCEPT ![r] = [@ EXCEPT !.pc = "returned",
                                                           !.response = resp]]
           /\ CompleteRequestLogging(resp, Given(error_msg))
    /\ UNCHANGED <<max_context_length, apc, filters, trace_id, search_results, prompt,
                   response, ask_raised, search_calls, gen_calls>>
    /\ UNCHANGED <<chunkVars, storeVars, searchVars, sessions>>

ConcurrentAskNext ==
    \/ \E r \in 1..2, top_k \in {1, DefaultTopK} :
          AskCallStart(r, [NoFilters EXCEPT !.top_k = top_k])
    \/ \E r \in 1..2 : AskCallSearchReturns(r)
    \/ \E r \in 1..2, ai_response \in GeneratedTexts : AskCallGenerateReturns(r, ai_response)
    \/ \E r \in 1..2, error_msg \in ExceptionMessages : AskCallRaises(r, error_msg)

\* two ask calls are made on a new agent over a store of min_context_chunks
\* chunks
ConcurrentAskInit ==
    /\ ChunkIdle
    /\ StoreIdle
    /\ table \in {t \in TablesOfLen(MinContextChunks) :
                     \A i \in 1..Len(t) : t[i].distance = i - 1}
    /\ search_req = NoSearch
    /\ fetched = <<>>
    /\ search_out = <<>>
    /\ spc = "idle"
    /\ endpoint = "none"
    /\ http_status = 0
    /\ queries_run = 0
    /\ max_context_length = DefaultMaxContextLength
    /\ apc = "concurrent"
    /\ filters = NoFilters
    /\ trace_id = 0
    /\ search_results = <<>>
    /\ prompt = NoPrompt
    /\ response = NoResponse
    /\ ask_raised = FALSE
    /\ search_calls = 0
    /\ gen_calls = 0
    /\ session_stats = [total_requests |-> 0, successful_requests |-> 0, failed_requests |-> 0,
                        fallback_count |-> 0]
    /\ metrics = <<>>
    /\ requests = [r \in 1..2 |-> [pc |-> "idle", trace_id |-> 0, filters |-> NoFilters,
                                   search_results |-> <<>>, response |-> NoResponse]]

SpecConcurrentAsk == ConcurrentAskInit /\ [][ConcurrentAskNext]_vars

\* _build_rag_prompt applied to a candidate list under a limit
BuildPrompt ==
    /\ apc = "build"
    /\ prompt' = BuildRagPrompt(search_results, max_context_length)
    /\ apc' = "built"
    /\ UNCHANGED <<max_context_length, filters, trace_id, search_results, response, ask_raised,
                   search_calls, gen_calls, session_stats, metrics>>
    /\ UNCHANGED <<chunkVars, storeVars, searchVars, concurrentVars>>

\* the result with the chunk text under the key "content"
WithContent(result) ==
    [chunk_id |-> result.chunk_id, content |-> result.text, metadata |-> result.metadata,
     document |-> result.document, similarity_score |-> result.similarity_score]

\* the candidate lists: the results of a search of any table, as they are
\* and with the chunk text under "content"
CandidateLists ==
    LET found == UNION {{DatabaseSearch(FetchAll(t, p, Len(t)), NoNumber) : p \in DistanceOrders(t)} :
                        t \in Tables}
    IN  found \cup {[i \in 1..Len(rs) |-> WithContent(rs[i])] : rs \in found}

PromptInit ==
    /\ ChunkIdle
    /\ StoreIdle
    /\ SearchIdle
    /\ max_context_length \in ContextLimits
    /\ apc = "build"
    /\ filters = NoFilters
    /\ trace_id = 0
    /\ search_results \in CandidateLists
    /\ prompt = NoPrompt
    /\ response = NoResponse
    /\ ask_raised = FALSE
    /\ search_calls = 0
    /\ gen_calls = 0
    /\ session_stats = [total_requests |-> 0, successful_requests |-> 0, failed_requests |-> 0,
                        fallback_count |-> 0]
    /\ metrics = <<>>
    /\ requests = <<>>

SpecPrompt == PromptInit /\ [][BuildPrompt]_vars

-----------------------------------------------------------------------------
(* The specifications of the chunker, the store and the search *)

StoreInit == ChunkIdle /\ StoreIdle /\ SearchIdle /\ AgentIdle

SpecStore == StoreInit /\ [][StoreNext]_vars

ChunkerInit ==
    /\ \E call \in ChunkCalls :
          /\ text = call[1]
          /\ chunk_size = call[2]
          /\ chunk_overlap = call[3]
    /\ start = 0
    /\ chunk_index = 0
    /\ chunks = <<>>
    /\ processed = <<>>
    /\ cpc = "loop"
    /\ token_text = <<>>
    /\ token_path = "none"
    /\ approx_tokens = 0
    /\ StoreIdle
    /\ SearchIdle
    /\ AgentIdle

SpecChunk == ChunkerInit /\ [][ChunkNext]_vars

\* the Drive connector's chunk_text is called on a text with max_tokens >= 1
\* and overlap_tokens >= 0, as sync_drive passes them on from the command line
DriveInit ==
    /\ text \in {Word("A", n) : n \in 0..MaxDriveTextLen}
    /\ chunk_size \in 1..MaxDriveTokens
    /\ chunk_overlap \in 0..MaxDriveTokens
    /\ start = 0
    /\ chunk_index = 0
    /\ chunks = <<>>
    /\ processed = <<>>
    /\ cpc = "drive"
    /\ token_text = <<>>
    /\ token_path = "none"
    /\ approx_tokens = 0
    /\ StoreIdle
    /\ SearchIdle
    /\ AgentIdle

SpecDrive == DriveInit /\ [][DriveNext]_vars

\* the chunker on any call of ChunkCalls, or the store under index_document
\* and delete_document calls
IngestInit == ChunkerInit \/ StoreInit

IngestNext == ChunkNext \/ StoreNext

SpecIngest == IngestInit /\ [][IngestNext]_vars

\* a chunk text is there and no estimate was computed
TokenEstimateInit ==
    /\ text = <<>>
    /\ chunk_size = 0
    /\ chunk_overlap = 0
    /\ start = 0
    /\ chunk_index = 0
    /\ chunks = <<>>
    /\ processed = <<>>
    /\ cpc = "idle"
    /\ token_text \in {Word("A", n) : n \in 1..MaxTokenTextLen}
    /\ token_path = "none"
    /\ approx_tokens = 0
    /\ StoreIdle
    /\ SearchIdle
    /\ AgentIdle

SpecTokens == TokenEstimateInit /\ [][TokenNext]_vars

\* batch_index_documents(documents, batch_size) starts on an empty store
BatchIngestInit ==
    /\ documents = {}
    /\ chunk_rows = {}
    /\ doc_seq = 1
    /\ chunk_seq = 1
    /\ last_call = NoCall
    /\ prev_call = NoCall
    /\ batch_docs \in DocListsUpTo(MaxBatchDocs)
    /\ doc_batch_size \in 1..MaxBatchDocs
    /\ batch_i = 0
    /\ batch_j = 0
    /\ document_ids = <<>>
    /\ attempts = <<>>
    /\ bpc = "running"
    /\ sessions = <<>>
    /\ ChunkIdle
    /\ SearchIdle
    /\ AgentIdle

SpecBatch == BatchIngestInit /\ [][BatchNext]_vars

\* two index_document calls arrive together on an empty store
ConcurrentIngestInit ==
    /\ documents = {}
    /\ chunk_rows = {}
    /\ doc_seq = 1
    /\ chunk_seq = 1
    /\ last_call = NoCall
    /\ prev_call = NoCall
    /\ batch_docs = <<>>
    /\ doc_batch_size = 0
    /\ batch_i = 0
    /\ batch_j = 0
    /\ document_ids = <<>>
    /\ attempts = <<>>
    /\ bpc = "concurrent"
    /\ sessions \in [1..2 -> {[pc |-> "start", content |-> content, source |-> o.source,
                                   uri |-> o.uri, id |-> 0, outcome |-> "none", ret |-> 0] :
                                      content \in {<<"A">>, <<"sp">>, Word("A", 2)},
                                      o \in Origins}]
    /\ ChunkIdle
    /\ SearchIdle
    /\ AgentIdle

SpecConcurrentIngest == ConcurrentIngestInit /\ [][ConcurrentIngestNext]_vars

\* a sync result of documents with their raw text reaches the webhook's
\* reindex or the background sync task
SyncInit ==
    /\ documents = {}
    /\ chunk_rows = {}
    /\ doc_seq = 1
    /\ chunk_seq = 1
    /\ last_call = NoCall
    /\ prev_call = NoCall
    /\ batch_docs \in {l \in DocListsUpTo(MaxBatchDocs) :
                          \A k \in 1..Len(l) : l[k].has_content}
    /\ doc_batch_size = 0
    /\ batch_i = 0
    /\ batch_j = 0
    /\ document_ids = <<>>
    /\ attempts = <<>>
    /\ bpc = "running"
    /\ sessions = <<>>
    /\ table = <<>>
    /\ search_req = NoSearch
    /\ fetched = <<>>
    /\ search_out = <<>>
    /\ spc = "idle"
    /\ endpoint \in {"/webhook/github", "/sync_sources"}
    /\ http_status = 0
    /\ queries_run = 0
    /\ ChunkIdle
    /\ AgentIdle

SpecSync == SyncInit /\ [][SyncNext]_vars

SearchInit ==
    /\ ChunkIdle
    /\ StoreIdle
    /\ table \in Tables \cup ThreeRowTables
    /\ search_req = NoSearch
    /\ fetched = <<>>
    /\ search_out = <<>>
    /\ spc = "idle"
    /\ endpoint = "none"
    /\ http_status = 0
    /\ queries_run = 0
    /\ AgentIdle

SearchNext ==
    \E limit \in 1..(MaxRows + 1),
       similarity_threshold \in {Given(t) : t \in 0..Scale} \cup {NoNumber},
       source_filter \in SourceFilters :
        Search(limit, similarity_threshold, source_filter)

SpecSearch == SearchInit /\ [][SearchNext]_vars

EndpointInit ==
    /\ ChunkIdle
    /\ StoreIdle
    /\ table \in Tables
    /\ search_req = NoSearch
    /\ fetched = <<>>
    /\ search_out = <<>>
    /\ spc = "idle"
    /\ endpoint = "none"
    /\ http_status = 0
    /\ queries_run = 0
    /\ AgentIdle

\* the requests: either endpoint, limits and thresholds in and out of range
EndpointNext ==
    \E ep \in {"/search", "/mcp/search_documents"},
       limit \in {-1, 0, 1, MaxRows, MaxLimit, MaxLimit + 1},
       similarity_threshold \in {NoNumber} \cup {Given(t) : t \in (-1)..(Scale + 1)},
       source_filter \in SourceFilters :
        SearchEndpoint(ep, limit, similarity_threshold, source_filter)

SpecEndpoint == EndpointInit /\ [][EndpointNext]_vars

-----------------------------------------------------------------------------
(* Claims about chunk_text *)

\* chunk_size > 0 and chunk_overlap in [0, chunk_size)
ValidChunkParams == chunk_size > 0 /\ chunk_overlap >= 0 /\ chunk_overlap < chunk_size

ChunkTexts == [i \in 1..Len(chunks) |-> chunks[i].text]

\* C7: with valid parameters every chunk emitted by chunk_text has a text of
\* at most chunk_size characters and a span end_char - start_char of at most
\* chunk_size.
C7_ChunkBound ==
    ValidChunkParams =>
        \A i \in 1..Len(chunks) :
            /\ Len(chunks[i].text) <= chunk_size
            /\ chunks[i].metadata.chunk_size <= chunk_size
            /\ chunks[i].metadata.end_char - chunks[i].metadata.start_char <= chunk_size

\* a finished call with valid parameters on a text longer than chunk_size,
\* with one chunk of exactly chunk_size characters and one cut short at a
\* separator
C7_Witness ==
    /\ cpc = "done"
    /\ ValidChunkParams
    /\ Len(text) > chunk_size
    /\ \E i \in 1..Len(chunks) : Len(chunks[i].text) = chunk_size
    /\ \E i \in 1..Len(chunks) :
          /\ chunks[i].metadata.end_char < Len(text)
          /\ chunks[i].metadata.end_char - chunks[i].metadata.start_char < chunk_size

\* C8: for a non-empty text and valid parameters the spans cut by the loop
\* leave no gap: the first starts at offset 0, each next one starts at or
\* before the end of the one before it, the last one ends at len(text), and
\* every non-whitespace character lies inside the span of an emitted chunk.
C8_ChunkCoverage ==
    (cpc = "done" /\ Len(text) > 0 /\ ValidChunkParams) =>
        /\ Len(processed) > 0
        /\ processed[1][1] = 0
        /\ \A i \in 2..Len(processed) : processed[i][1] <= processed[i - 1][2]
        /\ processed[Len(processed)][2] = Len(text)
        /\ \A p \in 0..(Len(text) - 1) :
              text[p + 1] \notin Whitespace =>
                  \E i \in 1..Len(chunks) :
                      /\ chunks[i].metadata.start_char <= p
                      /\ p < chunks[i].metadata.end_char

\* a finished call on a text with several spans, one of them whitespace-only
\* and dropped, and non-whitespace characters on both sides of it
C8_Witness ==
    /\ cpc = "done"
    /\ ValidChunkParams
    /\ Len(processed) >= 3
    /\ Len(chunks) >= 2
    /\ Len(chunks) < Len(processed)
    /\ text[Len(text)] \notin Whitespace

\* C9: chunking "AAAA BBBB CCCC DDDD" with chunk_size 9 and chunk_overlap 4
\* yields exactly "AAAA BBBB", "BBBB CCCC", "CCCC DDDD".
C9_WorkedExample ==
    (cpc = "done" /\ text = ExampleText /\ chunk_size = 9 /\ chunk_overlap = 4) =>
        ChunkTexts = << Word("A", 4) \o <<"sp">> \o Word("B", 4),
                        Word("B", 4) \o <<"sp">> \o Word("C", 4),
                        Word("C", 4) \o <<"sp">> \o Word("D", 4) >>

\* the tokens of the text: the maximal runs [a, b) without whitespace (every
\* separator but the empty one holds a whitespace character)
Tokens ==
    {<<a, b>> \in (0..Len(text)) \X (0..Len(text)) :
        /\ a < b
        /\ \A i \in (a + 1)..b : text[i] \notin Whitespace
        /\ a = 0 \/ text[a] \in Whitespace
        /\ b = Len(text) \/ text[b + 1] \in Whitespace}

\* the tokens longer than chunk_size
OversizedTokens == {tk \in Tokens : tk[2] - tk[1] > chunk_size}

C18_TokenEstimate ==
    token_path # "none" =>
        /\ approx_tokens >= 1
        /\ 4 * approx_tokens >= Len(token_text)
        /\ 4 * (approx_tokens - 1) < Max2(1, Len(token_text))

\* C20: for every text, every chunk_size >= 1 and every chunk_overlap >= 0
\* (chunk_overlap >= chunk_size included) the cursor of chunk_text grows on
\* each iteration (each cut span starts after the one before, below
\* len(text), and is not empty), so chunk_text returns after at most len(text)
\* iterations, with at least one chunk when the text has a character that is
\* not whitespace.
C20_ForwardProgress ==
    /\ \A k \in 1..(Len(processed) - 1) : processed[k][1] < processed[k + 1][1]
    /\ processed # <<>> => start > processed[Len(processed)][1]
    /\ \A k \in 1..Len(processed) :
          processed[k][1] < Len(text) /\ processed[k][1] < processed[k][2]
    /\ start >= 0
    /\ Len(processed) <= Len(text)
    /\ (cpc = "done" /\ \E i \in 1..Len(text) : text[i] \notin Whitespace) => chunks # <<>>

\* a finished call with chunk_overlap >= chunk_size on a text with
\* separators, which took len(text) iterations and emitted chunks
C20_Witness ==
    /\ cpc = "done"
    /\ chunk_overlap >= chunk_size
    /\ Len(text) = MaxTextLen
    /\ Len(processed) = Len(text)
    /\ \E i \in 1..Len(text) : text[i] \in Whitespace
    /\ Len(chunks) >= 2

-----------------------------------------------------------------------------
(* Claims about the document store *)

\* C4: the store holds at most one Document per content hash; of two
\* successive index_document calls with the same content the second returns
\* the id the first returned and leaves exactly one Document with that
\* content; two successive successful calls with different contents return
\* distinct ids and leave a Document for each.
C4_Dedup ==
    /\ \A d1, d2 \in documents : d1.content_hash = d2.content_hash => d1 = d2
    /\ (prev_call.op = "index" /\ prev_call.outcome = "returned" /\ last_call.op = "index") =>
          IF last_call.content = prev_call.content
          THEN /\ last_call.outcome = "returned"
               /\ last_call.ret = prev_call.ret
               /\ Cardinality(ExistingDoc(ContentHash(last_call.content))) = 1
          ELSE last_call.outcome = "returned" =>
                  /\ last_call.ret # prev_call.ret
                  /\ \E d1, d2 \in documents :
                        /\ d1.id = prev_call.ret /\ d1.content_hash = ContentHash(prev_call.content)
                        /\ d2.id = last_call.ret /\ d2.content_hash = ContentHash(last_call.content)

\* a content indexed from github and then again, under another uri, from
\* gdrive: the second call created nothing and returned the first id
C4_Witness ==
    /\ prev_call.op = "index" /\ prev_call.created
    /\ last_call.op = "index" /\ ~last_call.created
    /\ last_call.content = prev_call.content
    /\ last_call.ret = prev_call.ret
    /\ \E d \in documents : d.id = last_call.ret /\ d.source = "github"
    /\ Cardinality(documents) = 2

\* the content a Document row was created from (the content of its hash)
ContentOfDocument(d) == d.content_hash[2]

\* the rows of table chunks that belong to document d
ChunksOf(d) == {c \in chunk_rows : c.doc_id = d.id}

\* C12: in every committed state each Document is stored with the complete
\* set of its chunks and their embeddings, and an index_document call that
\* raises (chunking or an embedding batch failed) leaves the documents and
\* the chunks as they were.
C12_AtomicIngestion ==
    /\ [](\A d \in documents :
            LET cs == ChunkText(ContentOfDocument(d))
            IN  /\ Cardinality(ChunksOf(d)) = Len(cs)
                /\ \A i \in 1..Len(cs) :
                      \E c \in ChunksOf(d) :
                         /\ c.text = cs[i].text
                         /\ c.chunk_metadata.chunk_index = cs[i].index
                         /\ c.embedding = Embedding(cs[i].text))
    /\ [][(last_call'.op = "index" /\ last_call'.outcome = "raised")
            => UNCHANGED <<documents, chunk_rows>>]_vars

\* the second embedding batch of a document failed after the first batch had
\* been added to the session, while another document of two batches is stored
C12_Witness ==
    /\ last_call.op = "index"
    /\ last_call.outcome = "raised"
    /\ last_call.failing_batch = 2
    /\ \E d \in documents : Cardinality(ChunksOf(d)) > BatchSize

\* the ids of the attempts that returned, in the order of the attempts
RECURSIVE ReturnedIds(_)
ReturnedIds(log) ==
    IF log = <<>> THEN <<>>
    ELSE LET last == log[Len(log)]
             before == ReturnedIds(SubSeq(log, 1, Len(log) - 1))
         IN  IF last.outcome = "returned" THEN Append(before, last.ret) ELSE before

\* C13: batch_index_documents calls index_document once for every input
\* document, in input order, whether or not an earlier call failed, and the
\* list it returns holds the ids of the calls that returned, in that order.
C13_BatchIsolation ==
    /\ \A k \in 1..Len(attempts) : attempts[k].position = k
    /\ Len(attempts) <= Len(batch_docs)
    /\ document_ids = ReturnedIds(attempts)
    /\ bpc = "done" => Len(attempts) = Len(batch_docs)

\* a finished batch of three documents in batches of two: the first was
\* indexed, the second failed, the third, in the next batch, was indexed
C13_Witness ==
    /\ bpc = "done"
    /\ Len(batch_docs) = 3
    /\ doc_batch_size = 2
    /\ attempts[1].outcome = "returned"
    /\ attempts[2].outcome = "raised"
    /\ attempts[3].outcome = "returned"
    /\ Len(document_ids) = 2
    /\ document_ids[1] # document_ids[2]

\* C14: every chunk belongs to exactly one existing Document; once
\* delete_document(id) has returned True no chunk of that document is left;
\* delete_document of an id that does not exist returns False and changes
\* neither the documents nor the chunks.
C14_OwnershipCascade ==
    /\ [](\A c \in chunk_rows : Cardinality({d \in documents : d.id = c.doc_id}) = 1)
    /\ []((last_call.op = "delete" /\ last_call.ret = TRUE) =>
            /\ \A c \in chunk_rows : c.doc_id # last_call.document_id
            /\ \A d \in documents : d.id # last_call.document_id)
    /\ [][last_call'.op = "delete" =>
            /\ last_call'.ret = FALSE <=> (\A d \in documents : d.id # last_call'.document_id)
            /\ last_call'.ret = FALSE => UNCHANGED <<documents, chunk_rows>>]_vars

\* a document of eleven chunks was deleted while another document keeps its
\* chunk, and before that a delete of an unknown id had returned False
C14_Witness ==
    /\ last_call.op = "delete" /\ last_call.ret = TRUE
    /\ prev_call.op = "delete" /\ prev_call.ret = FALSE
    /\ chunk_seq > BatchSize + 2
    /\ Cardinality(chunk_rows) = 1
    /\ Cardinality(documents) = 1

\* the chunk_index values stored for document d
StoredIndices(d) == {c.chunk_metadata.chunk_index : c \in ChunksOf(d)}

\* C15: chunk_text emits a chunk for exactly the spans that are not empty
\* after stripping, numbered 0, 1, ..., n-1 in emission order; index_document
\* stores these numbers as chunk_index, so the chunk_index values of a stored
\* document are 0..n-1 whatever metadata the caller passed.
C15_DenseIndices ==
    LET KeptSpans == {k \in 1..Len(processed) :
                         Strip(Slice(text, processed[k][1], processed[k][2])) # <<>>}
    IN
    /\ Len(chunks) = Cardinality(KeptSpans)
    /\ \A i \in 1..Len(chunks) :
          /\ chunks[i].index = i - 1
          /\ chunks[i].text # <<>>
          /\ \E k \in KeptSpans :
                /\ Cardinality({m \in KeptSpans : m < k}) = i - 1
                /\ chunks[i].metadata.start_char = processed[k][1]
                /\ chunks[i].metadata.end_char = processed[k][2]
    /\ \A d \in documents :
          /\ StoredIndices(d) = 0..(Cardinality(ChunksOf(d)) - 1)
          /\ \A c \in ChunksOf(d) :
                c.text = ChunkText(ContentOfDocument(d))[c.chunk_metadata.chunk_index + 1].text

\* a document of eleven chunks indexed with a metadata that has its own
\* chunk_index key, next to a whitespace-only document stored without chunk
C15_Witness ==
    /\ last_call.op = "index" /\ last_call.created
    /\ last_call.metadata = [chunk_index |-> 7, start_char |-> 7]
    /\ \E d \in documents :
          /\ d.id = last_call.ret
          /\ StoredIndices(d) = 0..BatchSize
    /\ \E d \in documents : ChunksOf(d) = {} /\ ContentOfDocument(d) = <<"sp">>

-----------------------------------------------------------------------------
(* Claims about the search *)

\* C1: for a search with a similarity_threshold t in (0, 1], no result has a
\* similarity (1 - distance) strictly below t.
C1_ThresholdRespected ==
    (spc = "done" /\ search_req.similarity_threshold # NoNumber
        /\ search_req.similarity_threshold[1] > 0) =>
        \A i \in 1..Len(search_out) :
            search_out[i].similarity_score >= search_req.similarity_threshold[1]

\* C11: in the list one search call returns, a candidate ranked before
\* another has a similarity_score at least as high, and the candidates that
\* survive the threshold and the source filter are in the order the query
\* returned them in.
C11_SimilarityMonotone ==
    spc = "done" =>
        \A i, j \in 1..Len(search_out) :
            i < j =>
                /\ search_out[i].similarity_score >= search_out[j].similarity_score
                /\ \E a, b \in 1..Len(fetched) :
                      /\ a < b
                      /\ fetched[a].chunk_id = search_out[i].chunk_id
                      /\ fetched[b].chunk_id = search_out[j].chunk_id

\* a search of three rows whose middle row the source filter removed: the
\* two survivors have different similarities and the nearer one was
\* inserted last
C11_Witness ==
    /\ spc = "done"
    /\ Len(fetched) = 3
    /\ Len(search_out) = 2
    /\ search_req.source_filter # None
    /\ fetched[1].chunk_id = search_out[1].chunk_id
    /\ fetched[3].chunk_id = search_out[2].chunk_id
    /\ search_out[1].similarity_score > search_out[2].similarity_score
    /\ search_out[1].chunk_id > search_out[2].chunk_id

\* C17: on every search endpoint a request whose limit is outside [1, 100]
\* or whose similarity_threshold is outside [0, 1] is rejected before any
\* embedding or store query is executed.
C17_RequestValidation ==
    (/\ spc = "done"
     /\ endpoint # "none"
     /\ \/ search_req.limit < MinLimit
        \/ search_req.limit > MaxLimit
        \/ /\ search_req.similarity_threshold # NoNumber
           /\ \/ search_req.similarity_threshold[1] < 0
              \/ search_req.similarity_threshold[1] > Scale) =>
        /\ http_status = 422
        /\ queries_run = 0

-----------------------------------------------------------------------------
(* Claims about the agent *)

\* the request ended in the except branch of ask: an error was logged
ExceptionCaught == Len(metrics) > 0 /\ metrics[Len(metrics)].error # NoString

\* C2: when the search step gave fewer than min_context_chunks candidates
\* the response has fallback_used = true and no sources, and the generation
\* was not called during the request.
C2_FallbackTrigger ==
    /\ Len(search_results) < MinContextChunks => gen_calls = 0 /\ apc # "generating"
    /\ (apc = "returned" /\ Len(search_results) < MinContextChunks) =>
          /\ ~ask_raised
          /\ response.fallback_used
          /\ response.sources = <<>>

\* a request whose search returned one candidate, answered by the canned
\* fallback
C2_Witness ==
    /\ apc = "returned"
    /\ ~ExceptionCaught
    /\ Len(search_results) = 1
    /\ response.chunks_scanned = 1
    /\ response.answer.kind = "canned"
    /\ Len(table) >= MinContextChunks

\* C3: when the search or the generation raised, ask does not raise, the
\* response is the error answer with no sources and fallback_used = true,
\* and the request is counted in failed_requests.
C3_ErroredStructured ==
    (apc = "returned" /\ ExceptionCaught) =>
        /\ ~ask_raised
        /\ response.answer.kind = "error"
        /\ response.sources = <<>>
        /\ response.fallback_used
        /\ session_stats.failed_requests
              = Cardinality({i \in 1..Len(metrics) : metrics[i].error # NoString})

\* C5: in an answered response the sources are exactly the candidates the
\* prompt included, each under the index of its [Source i] label.
C5_SourcesAreIncluded ==
    (apc = "returned" /\ response.answer.kind = "generated" /\ ~response.fallback_used) =>
        /\ Len(response.sources) = prompt.included
        /\ \A i \in 1..Len(response.sources) :
              /\ response.sources[i].index = i
              /\ response.sources[i].chunk_id = search_results[i].chunk_id

\* C19: every candidate included in the assembled context is rendered as its
\* attribution header followed by the chunk text the retriever returned for
\* it, so a chunk whose text is not empty is never in the prompt without text.
C19_RenderedText ==
    apc = "generating" =>
        prompt.context =
            Join([i \in 1..prompt.included |->
                     SourceInfo(i - 1, search_results[i]) \o <<"nl">>
                         \o search_results[i].text \o <<"nl">>])

\* C6: the documentary context _build_rag_prompt assembles is at most
\* max_context_length characters long.
C6_ContextBudget == apc = "built" => Len(prompt.context) <= max_context_length

\* C10: when the SearchFilter sets source, repo or mime, every candidate the
\* search step returned (counted, placed in the context, attributed) has
\* that source, repo or mime.
C10_FiltersExact ==
    apc \in {"generating", "returned"} =>
        \A i \in 1..Len(search_results) :
            /\ filters.source # None => search_results[i].document.source = filters.source
            /\ filters.repo # None => search_results[i].metadata.repo = filters.repo
            /\ filters.mime # None => search_results[i].document.mime = filters.mime

\* C21: when the search returned at least min_context_chunks candidates and
\* the generation returned a text, the response carries that text unchanged
\* as its answer, and fallback_used is true exactly when the lower-cased
\* text contains "je ne trouve pas", "je ne sais pas", "informations
\* insuffisantes" or "pas d'informations pertinentes".
C21_PostHocClassification ==
    [][\A g \in GeneratedTexts :
          AskGenerateReturns(g) =>
              /\ Len(search_results) >= MinContextChunks
              /\ response'.answer = [kind |-> "generated", text |-> g]
              /\ response'.fallback_used =
                    \E phrase \in
                        {<<"j", "e", "sp", "n", "e", "sp", "t", "r", "o", "u", "v", "e", "sp",
                           "p", "a", "s">>,
                         <<"j", "e", "sp", "n", "e", "sp", "s", "a", "i", "s", "sp", "p", "a",
                           "s">>,
                         <<"i", "n", "f", "o", "r", "m", "a", "t", "i", "o", "n", "s", "sp",
                           "i", "n", "s", "u", "f", "f", "i", "s", "a", "n", "t", "e", "s">>,
                         <<"p", "a", "s", "sp", "d", "'", "i", "n", "f", "o", "r", "m", "a",
                           "t", "i", "o", "n", "s", "sp", "p", "e", "r", "t", "i", "n", "e",
                           "n", "t", "e", "s">>} :
                        Contains(Lower(g), phrase)]_vars

\* a generated answer that holds a refusal phrase in capitals only is
\* returned as it was generated and classified as a fallback
C21_Witness ==
    /\ apc = "returned"
    /\ response.answer.kind = "generated"
    /\ response.answer.text \in GeneratedTexts
    /\ response.answer.text # Lower(response.answer.text)
    /\ response.fallback_used
    /\ Len(search_results) >= MinContextChunks

\* C22: in every request the search is posted exactly once; the generation
\* is called once when the search returned at least min_context_chunks
\* candidates and never otherwise; a call that failed is not issued again.
\* (search_results stays empty when the search raised.)
C22_CallCounts ==
    /\ apc = "searching" => search_calls = 0 /\ gen_calls = 0
    /\ apc = "generating" => search_calls = 1 /\ gen_calls = 1
    /\ apc = "returned" =>
          /\ search_calls = 1
          /\ gen_calls = IF Len(search_results) >= MinContextChunks THEN 1 ELSE 0

\* a request whose generation call failed: one search, one generation, the
\* error response
C22_Witness ==
    /\ apc = "returned"
    /\ ExceptionCaught
    /\ response.answer.kind = "error"
    /\ search_calls = 1
    /\ gen_calls = 1

\* C28 as stated: in every response fallback_used = true implies that the
\* sources list is empty, on the insufficient-context path, on the error
\* path and when the generated answer holds a refusal phrase.
C28_FallbackNoSources ==
    (apc = "returned" /\ response.fallback_used) => response.sources = <<>>

\* C28 amended: a response with fallback_used = true has no sources on the
\* insufficient-context path and on the error path; when the generated
\* answer holds a refusal phrase the response lists one source for every
\* candidate the search returned, at least min_context_chunks of them.
C28_FallbackSources ==
    (apc = "returned" /\ response.fallback_used) =>
        IF response.answer.kind = "generated"
        THEN /\ Len(response.sources) = Len(search_results)
             /\ Len(response.sources) >= MinContextChunks
             /\ \A i \in 1..Len(response.sources) :
                   response.sources[i].chunk_id = search_results[i].chunk_id
        ELSE /\ response.answer.kind \in {"canned", "error"}
             /\ response.sources = <<>>

\* a generated answer classified as a fallback, returned with its sources
C28_Witness ==
    /\ apc = "returned"
    /\ response.answer.kind = "generated"
    /\ response.fallback_used
    /\ response.sources # <<>>

\* the accumulated length of the first k candidates, each rendered whole
RECURSIVE RenderedLength(_, _)
RenderedLength(results, k) ==
    IF k = 0 THEN 0
    ELSE RenderedLength(results, k - 1) + Len(Rendered(k - 1, results[k]))

\* C23: the candidates _build_rag_prompt includes are a prefix of the
\* retrieval order, each rendered whole; the first candidate that would make
\* the accumulated length exceed max_context_length is dropped with every
\* candidate after it, even one that would still fit.
C23_PrefixTruncation ==
    apc = "built" =>
        LET n == prompt.included
        IN  /\ n <= Len(search_results)
            /\ prompt.context = Join([i \in 1..n |-> Rendered(i - 1, search_results[i])])
            /\ RenderedLength(search_results, n) <= max_context_length
            /\ n < Len(search_results) =>
                  RenderedLength(search_results, n + 1) > max_context_length

\* a candidate was dropped although a candidate after the overflowing one
\* would still have fitted
C23_Witness ==
    /\ apc = "built"
    /\ prompt.included < Len(search_results)
    /\ \E j \in (prompt.included + 2)..Len(search_results) :
          RenderedLength(search_results, prompt.included)
              + Len(Rendered(j - 1, search_results[j])) <= max_context_length

\* C24: index_document called with a content whose hash is already stored
\* returns the id of the stored document and leaves that document (source,
\* uri, title, mime) and every chunk row unchanged, whatever source, uri,
\* title or metadata the call supplies; get_embeddings is not called.
C24_ReingestionNoChange ==
    [][(last_call'.op = "index" /\ ExistingDoc(ContentHash(last_call'.content)) # {}) =>
          /\ last_call'.outcome = "returned"
          /\ \E d \in documents :
                d.content_hash = ContentHash(last_call'.content) /\ d.id = last_call'.ret
          /\ documents' = documents
          /\ chunk_rows' = chunk_rows
          /\ last_call'.embed_calls = 0]_vars

\* a content of two embedding batches indexed from github without metadata
\* and then again from gdrive, under another uri: the second call returned
\* the first id, called no embedding, and the document is still the github one
C24_Witness ==
    /\ prev_call.op = "index" /\ prev_call.created /\ prev_call.embed_calls = 2
    /\ last_call.op = "index" /\ ~last_call.created /\ last_call.outcome = "returned"
    /\ last_call.embed_calls = 0
    /\ last_call.content = prev_call.content
    /\ last_call.ret = prev_call.ret
    /\ \A d \in documents : d.source = "github" /\ d.uri = "u1"
    /\ Cardinality(documents) = 1
    /\ Cardinality(chunk_rows) = BatchSize + 1

-----------------------------------------------------------------------------
(* Further claims about the chunker *)

\* C26: for every text and valid parameters the end_char values of the
\* chunks chunk_text emits are strictly increasing: no chunk's span lies
\* within its predecessor's span and no chunk is emitted after a chunk whose
\* end_char is len(text).
C26_EveryChunkAddsText ==
    ValidChunkParams =>
        /\ \A i \in 1..(Len(chunks) - 1) :
              chunks[i].metadata.end_char < chunks[i + 1].metadata.end_char
        /\ \A i \in 1..(Len(chunks) - 1) : chunks[i].metadata.end_char # Len(text)

\* C30: the Drive connector's chunk_text terminates for every non-empty text,
\* max_tokens >= 1 and overlap_tokens >= 0, overlap_tokens >= max_tokens
\* included: its cursor strictly increases from one iteration to the next
\* until the end of the text is reached, so it iterates at most len(text)
\* times.
C30_DriveTerminates ==
    (cpc \in {"drive", "done"} /\ text # <<>> /\ chunk_size >= 1 /\ chunk_overlap >= 0) =>
        /\ \A k \in 1..(Len(processed) - 1) : processed[k][1] < processed[k + 1][1]
        /\ processed # <<>> /\ cpc = "drive" => start > processed[Len(processed)][1]
        /\ Len(processed) <= Len(text)

-----------------------------------------------------------------------------
(* Claims about the ingestion entry points *)

\* C25: in the reindex of the GitHub push webhook and in the background sync
\* task a failure while indexing one document does not prevent the other
\* documents of the same sync result from being indexed: when the loop is
\* over every document was handed to index_document.
C25_EntryPointIsolation ==
    (bpc = "done" /\ endpoint \in {"/webhook/github", "/sync_sources"}) =>
        /\ Len(attempts) = Len(batch_docs)
        /\ \A k \in 1..Len(batch_docs) : attempts[k].position = k

\* C27: when two index_document calls with the same content run
\* concurrently, in any interleaving (both may pass the existence check
\* before either commits), both return the same document id, neither
\* raises, and exactly one Document with one set of chunks is stored.
C27_ConcurrentDuplicate ==
    \A s1, s2 \in DOMAIN sessions :
        (/\ s1 # s2
         /\ sessions[s1].pc = "done" /\ sessions[s2].pc = "done"
         /\ sessions[s1].content = sessions[s2].content) =>
            /\ sessions[s1].outcome = "returned"
            /\ sessions[s2].outcome = "returned"
            /\ sessions[s1].ret = sessions[s2].ret
            /\ \E d \in documents :
                  /\ ExistingDoc(ContentHash(sessions[s1].content)) = {d}
                  /\ d.id = sessions[s1].ret
                  /\ Cardinality(ChunksOf(d)) = Len(ChunkText(sessions[s1].content))

-----------------------------------------------------------------------------
(* Claims about concurrent requests *)

\* C29: every ask call records exactly one request in the MetricsCollector,
\* under the trace_id of the response it returns; after any interleaving of
\* concurrent calls on one agent total_requests is the number of completed
\* calls and equals successful_requests + failed_requests, and
\* failed_requests <= fallback_count <= total_requests.
C29_MetricsAccounting ==
    LET completed == {r \in DOMAIN requests : requests[r].pc = "returned"}
    IN  /\ session_stats.total_requests = Cardinality(completed)
        /\ Len(metrics) = Cardinality(completed)
        /\ \A r \in completed :
              /\ requests[r].response.trace_id = requests[r].trace_id
              /\ Cardinality({i \in 1..Len(metrics) :
                                 metrics[i].trace_id = requests[r].response.trace_id}) = 1
        /\ \A r \in DOMAIN requests \ completed :
              \A i \in 1..Len(metrics) : metrics[i].trace_id # requests[r].trace_id
        /\ session_stats.total_requests
              = session_stats.successful_requests + session_stats.failed_requests
        /\ session_stats.failed_requests <= session_stats.fallback_count
        /\ session_stats.fallback_count <= session_stats.total_requests

\* the call that started second failed and was recorded while the call that
\* started first was still waiting for its generation, which then answered
C29_Witness ==
    /\ \A r \in DOMAIN requests : requests[r].pc = "returned"
    /\ Len(metrics) = 2
    /\ metrics[1].trace_id = 2 /\ metrics[1].error # NoString
    /\ metrics[2].trace_id = 1 /\ metrics[2].chunks_used = MinContextChunks
    /\ ~metrics[2].fallback_used
    /\ session_stats = [total_requests |-> 2, successful_requests |-> 1,
                        failed_requests |-> 1, fallback_count |-> 1]

====
